---- MODULE Spec2Model ----
(***************************************************************************)
(* Model of kroget's proposal pipeline: generate_proposal (proposal.py),   *)
(* apply_proposal_items (proposal.py), the proposal file format            *)
(* (Proposal.save / Proposal.load), the sent-session history               *)
(* (sent_items.py), the staples store (storage.py) and the confirmation    *)
(* gates of the CLI (cli.py proposal_apply) and the TUI (tui.py).          *)
(***************************************************************************)
EXTENDS Integers, Sequences, FiniteSets, TLC

\* ------------------------------------------------------------------------
\* Bounds of the model
\* ------------------------------------------------------------------------
MaxItems == 3
MaxRtItems == 1
MaxRtAlts == 1
MaxRecords == 22
MaxConfirms == 2
MaxStaples == 2
MaxCrashCalls == 3

\* ------------------------------------------------------------------------
\* Python values
\* ------------------------------------------------------------------------
\* Python's None; distinct from every str the model uses, "" included.
NoneV == "<None>"

\* bool(x) for x : str | None
Truthy(x) == x # NoneV /\ x # ""

Names == {"milk", "eggs"}
Upcs == {"000111", "000222"}
Modalities == {"PICKUP", "DELIVERY"}

RECURSIVE SeqsUpTo(_, _)
SeqsUpTo(S, n) ==
    IF n = 0 THEN {<<>>}
    ELSE LET shorter == SeqsUpTo(S, n - 1)
         IN  shorter \cup {Append(s, x) : s \in {t \in shorter : Len(t) = n - 1}, x \in S}

\* ------------------------------------------------------------------------
\* proposal.py: ProposalAlternative, ProposalItem, Proposal
\* ------------------------------------------------------------------------
ProposalAlternative(upc, description) == [upc |-> upc, description |-> description]

ProposalItem(name, quantity, modality, upc, source, sources, notes, alternatives) ==
    [name |-> name, quantity |-> quantity, modality |-> modality, upc |-> upc,
     source |-> source, sources |-> sources, notes |-> notes,
     alternatives |-> alternatives]

Proposal(version, created_at, location_id, items, sources) ==
    [version |-> version, created_at |-> created_at, location_id |-> location_id,
     items |-> items, sources |-> sources]

\* ------------------------------------------------------------------------
\* JSON documents, as json.dumps writes them and json.loads reads them
\* ------------------------------------------------------------------------
JNull == [t |-> "null"]
JStr(s) == [t |-> "str", s |-> s]
JNum(n) == [t |-> "num", n |-> n]
JArr(a) == [t |-> "arr", a |-> a]
JObj(o) == [t |-> "obj", o |-> o]

\* DumpOptStr writing None as "" (`x or ""`)
DumpOptStr_NoneAsEmpty(x) == IF x = NoneV THEN JStr("") ELSE JStr(x)

\* json.dumps of a value of type str | None
DumpOptStr(x) == IF x = NoneV THEN JNull ELSE JStr(x)

DumpStrList(xs) == JArr([i \in 1..Len(xs) |-> JStr(xs[i])])

\* BaseModel.model_dump followed by json.dumps, per model class
DumpAlternative(alt) ==
    JObj([upc |-> JStr(alt.upc), description |-> DumpOptStr(alt.description)])

DumpItem(item) ==
    JObj([name |-> JStr(item.name),
          quantity |-> JNum(item.quantity),
          modality |-> JStr(item.modality),
          upc |-> DumpOptStr(item.upc),
          source |-> DumpOptStr(item.source),
          sources |-> DumpStrList(item.sources),
          notes |-> DumpOptStr(item.notes),
          alternatives |-> JArr([i \in 1..Len(item.alternatives) |->
                                    DumpAlternative(item.alternatives[i])])])

\* Proposal.save: json.dumps(self.model_dump())
Proposal_save(p) ==
    JObj([version |-> JStr(p.version),
          created_at |-> JStr(p.created_at),
          location_id |-> DumpOptStr(p.location_id),
          items |-> JArr([i \in 1..Len(p.items) |-> DumpItem(p.items[i])]),
          sources |-> DumpStrList(p.sources)])

\* pydantic validation of one field
IsStr(j) == j.t = "str"
IsOptStr(j) == j.t = "str" \/ j.t = "null"
IsInt(j) == j.t = "num"
IsStrList(j) == j.t = "arr" /\ \A i \in DOMAIN j.a : IsStr(j.a[i])

LoadOptStr(j) == IF j.t = "null" THEN NoneV ELSE j.s
LoadStrList(j) == [i \in DOMAIN j.a |-> j.a[i].s]

\* a field with a default may be absent from the document
Has(o, k) == k \in DOMAIN o

AlternativeValid(j) ==
    /\ j.t = "obj"
    /\ Has(j.o, "upc") /\ IsStr(j.o.upc)
    /\ Has(j.o, "description") => IsOptStr(j.o.description)

LoadAlternative(j) ==
    ProposalAlternative(j.o.upc.s,
        IF Has(j.o, "description") THEN LoadOptStr(j.o.description) ELSE NoneV)

ItemValid(j) ==
    /\ j.t = "obj"
    /\ Has(j.o, "name") /\ IsStr(j.o.name)
    /\ Has(j.o, "quantity") /\ IsInt(j.o.quantity)
    /\ Has(j.o, "modality") /\ IsStr(j.o.modality)
    /\ Has(j.o, "upc") => IsOptStr(j.o.upc)
    /\ Has(j.o, "source") => IsOptStr(j.o.source)
    /\ Has(j.o, "sources") => IsStrList(j.o.sources)
    /\ Has(j.o, "notes") => IsOptStr(j.o.notes)
    /\ Has(j.o, "alternatives") =>
          /\ j.o.alternatives.t = "arr"
          /\ \A i \in DOMAIN j.o.alternatives.a : AlternativeValid(j.o.alternatives.a[i])

LoadItem(j) ==
    ProposalItem(j.o.name.s, j.o.quantity.n, j.o.modality.s,
        IF Has(j.o, "upc") THEN LoadOptStr(j.o.upc) ELSE NoneV,
        IF Has(j.o, "source") THEN LoadOptStr(j.o.source) ELSE NoneV,
        IF Has(j.o, "sources") THEN LoadStrList(j.o.sources) ELSE <<>>,
        IF Has(j.o, "notes") THEN LoadOptStr(j.o.notes) ELSE NoneV,
        IF Has(j.o, "alternatives")
        THEN [i \in DOMAIN j.o.alternatives.a |-> LoadAlternative(j.o.alternatives.a[i])]
        ELSE <<>>)

ProposalValid(j) ==
    /\ j.t = "obj"
    /\ Has(j.o, "version") /\ IsStr(j.o.version)
    /\ Has(j.o, "created_at") /\ IsStr(j.o.created_at)
    /\ Has(j.o, "location_id") => IsOptStr(j.o.location_id)
    /\ Has(j.o, "items") =>
          /\ j.o.items.t = "arr"
          /\ \A i \in DOMAIN j.o.items.a : ItemValid(j.o.items.a[i])
    /\ Has(j.o, "sources") => IsStrList(j.o.sources)

\* Proposal.load: cls.model_validate(json.loads(text)); raises on an invalid document
Proposal_load(j) ==
    IF ~ProposalValid(j) THEN [ok |-> FALSE]
    ELSE [ok |-> TRUE,
          value |-> Proposal(j.o.version.s, j.o.created_at.s,
                       IF Has(j.o, "location_id") THEN LoadOptStr(j.o.location_id) ELSE NoneV,
                       IF Has(j.o, "items")
                       THEN [i \in DOMAIN j.o.items.a |-> LoadItem(j.o.items.a[i])]
                       ELSE <<>>,
                       IF Has(j.o, "sources") THEN LoadStrList(j.o.sources) ELSE <<>>)]

\* ------------------------------------------------------------------------
\* sent_items.py: SentItem, SentSession and their dict forms
\* ------------------------------------------------------------------------
MAX_SESSIONS == 20

\* str(x) of a str | None value
PyStr(x) == IF x = NoneV THEN "None" ELSE x

SentItem(name, upc, quantity, modality, status, error) ==
    [name |-> name, upc |-> upc, quantity |-> quantity, modality |-> modality,
     status |-> status, error |-> error]

SentSession(session_id, started_at, finished_at, location_id, sources, items) ==
    [session_id |-> session_id, started_at |-> started_at,
     finished_at |-> finished_at, location_id |-> location_id,
     sources |-> sources, items |-> items]

SentItem_to_dict(it) ==
    JObj([name |-> JStr(it.name), upc |-> DumpOptStr(it.upc),
          quantity |-> JNum(it.quantity), modality |-> JStr(it.modality),
          status |-> JStr(it.status), error |-> DumpOptStr(it.error)])

SentSession_to_dict(s) ==
    JObj([session_id |-> JStr(s.session_id),
          started_at |-> JStr(s.started_at),
          finished_at |-> JStr(s.finished_at),
          location_id |-> DumpOptStr(s.location_id),
          sources |-> DumpStrList(s.sources),
          items |-> JArr([i \in 1..Len(s.items) |-> SentItem_to_dict(s.items[i])])])

\* str(data.get(key, "")) on a field the writer stored as str | None
GetStr(j) == PyStr(LoadOptStr(j))

\* str(data.get(key)) if data.get(key) else None
GetOptStr(j) == IF Truthy(LoadOptStr(j)) THEN LoadOptStr(j) ELSE NoneV

SentItem_from_dict(j) ==
    SentItem(GetStr(j.o.name), GetStr(j.o.upc), j.o.quantity.n,
             GetStr(j.o.modality), GetStr(j.o.status), GetOptStr(j.o.error))

SentSession_from_dict(j) ==
    SentSession(GetStr(j.o.session_id), GetStr(j.o.started_at),
                GetStr(j.o.finished_at), GetOptStr(j.o.location_id),
                LoadStrList(j.o.sources),
                [i \in DOMAIN j.o.items.a |-> SentItem_from_dict(j.o.items.a[i])])

\* the history file: absent, or the document {"sessions": [...]}
NoFile == [exists |-> FALSE]
FileOf(doc) == [exists |-> TRUE, doc |-> doc]

\* SentItemsStore.load
SentItemsStore_load(file) ==
    IF ~file.exists THEN <<>>
    ELSE [i \in DOMAIN file.doc.o.sessions.a |->
             SentSession_from_dict(file.doc.o.sessions.a[i])]

\* SentItemsStore.save, the document it writes to the temporary file
SentItemsStore_payload(sessions) ==
    JObj([sessions |-> JArr([i \in 1..Len(sessions) |->
                                SentSession_to_dict(sessions[i])])])

\* sessions.insert(0, session)
InsertFront(sessions, session) == <<session>> \o sessions

\* Truncate as sessions[-max_sessions:]
Truncate_KeepsTail(sessions, max_sessions) ==
    IF Len(sessions) <= max_sessions THEN sessions
    ELSE SubSeq(sessions, Len(sessions) - max_sessions + 1, Len(sessions))

\* sessions[:max_sessions]
Truncate(sessions, max_sessions) ==
    IF Len(sessions) <= max_sessions THEN sessions
    ELSE SubSeq(sessions, 1, max_sessions)

\* ------------------------------------------------------------------------
\* State
\* ------------------------------------------------------------------------
VARIABLES
    host,          \* "cli": kroget proposal apply; "tui": KrogetApp
    proposalFile,  \* the proposal file given to `proposal apply`
    argv,          \* --apply, --yes, --stop-on-error
    cliPc,         \* position of proposal_apply
    proposal,      \* the Proposal held in memory ([ok |-> FALSE]: none)
    confirmed,     \* answer to typer.confirm: "unasked", "yes", "no"
    runs,          \* the invocations of apply_proposal_items, in start order
    span,          \* started_at / finished_at taken by proposal_apply
    tuiScreen,     \* "main" or "confirm" (ConfirmScreen pushed)
    tuiDismissed,  \* how the ConfirmScreen was dismissed, in order
    ui,            \* KrogetApp: staples, pinned, selection, rows of the tables
    histFile,      \* ~/.kroget/sent_items.json
    tmpFile,       \* ~/.kroget/sent_items.tmp
    rec,           \* frame of record_sent_session
    recLog,        \* sessions passed to record_sent_session, in call order
    rt,            \* a Proposal, the file it is saved to, what is loaded back
    cand,          \* one staple, the API's answers for it, the item built from them
    cmd,           \* one kroget command: environment, position, network calls, output
    store,         \* ~/.kroget/staples.json: the list under "staples"
    bld,           \* frame of generate_proposal and of its caller
    peer           \* frame of one invocation by another kroget process

applyVars == <<host, proposalFile, argv, cliPc, proposal, confirmed, runs, span,
               tuiScreen, tuiDismissed, ui>>
histVars == <<histFile, tmpFile, rec, recLog>>
buildVars == <<store, bld>>
vars == <<applyVars, histVars, rt, buildVars, peer, cand, cmd>>

ApiErrors == {"HTTP 500"}

\* SelectionState.proposal_index / alternative_index = None
NoIndex == -1

\* KrogetApp.__init__: self.staples, self.pinned, self.selection; prop_rows
\* and alt_rows are the numbers of rows of the proposal table and of the
\* alternatives table
IdleUi ==
    [staples |-> <<>>, pinned |-> <<>>, proposal_index |-> NoIndex,
     alternative_index |-> NoIndex, prop_rows |-> 0, alt_rows |-> 0]
\* readings of the clock (_now_iso), in increasing order
Times == <<"2024-01-01T00:00:00Z", "2024-01-01T00:01:00Z">>

\* names, quantities and modalities of the staples and items of the model
ItemNames == <<"milk", "eggs", "bread", "rice">>
Quantities == <<1, 2, 1, 3>>
ItemModalities == <<"PICKUP", "DELIVERY", "PICKUP", "DELIVERY">>

\* ------------------------------------------------------------------------
\* storage.py: Staple, StaplesStore, update_staple
\* ------------------------------------------------------------------------
Staple(name, term, quantity, preferred_upc, modality) ==
    [name |-> name, term |-> term, quantity |-> quantity,
     preferred_upc |-> preferred_upc, modality |-> modality]

\* Staple.from_dict: preferred_upc is kept only when truthy
Staple_from_dict(d) ==
    Staple(d.name, d.term, d.quantity,
           IF Truthy(d.preferred_upc) THEN d.preferred_upc ELSE NoneV,
           d.modality)

\* Staple.to_dict
Staple_to_dict(s) ==
    [name |-> s.name, term |-> s.term, quantity |-> s.quantity,
     preferred_upc |-> s.preferred_upc, modality |-> s.modality]

\* StaplesStore.load
StaplesStore_load(file) == [i \in DOMAIN file |-> Staple_from_dict(file[i])]

\* StaplesStore.save: the list written under "staples"
StaplesStore_save(staples) == [i \in DOMAIN staples |-> Staple_to_dict(staples[i])]

\* `quantity: int | None = None`: the None of an int parameter
NoQuantity == -1

\* update_staple that finds the staple and returns without store.save
update_staple_NoSave(file, name, term, quantity, preferred_upc, modality) ==
    LET staples == StaplesStore_load(file)
        hits == {i \in DOMAIN staples : staples[i].name = name}
    IN  IF hits = {} THEN [ok |-> FALSE, file |-> file]
        ELSE [ok |-> TRUE, file |-> file]

\* update_staple: ok = FALSE is `raise ValueError`; file is the store afterwards
update_staple(file, name, term, quantity, preferred_upc, modality) ==
    LET staples == StaplesStore_load(file)
        hits == {i \in DOMAIN staples : staples[i].name = name}
    IN  IF hits = {} THEN [ok |-> FALSE, file |-> file]
        ELSE LET i == CHOOSE h \in hits : \A g \in hits : h <= g
                 updated ==
                     [staples EXCEPT ![i] =
                         Staple(@.name,
                                IF term # NoneV THEN term ELSE @.term,
                                IF quantity # NoQuantity THEN quantity ELSE @.quantity,
                                IF preferred_upc # NoneV THEN preferred_upc
                                                        ELSE @.preferred_upc,
                                IF modality # NoneV THEN modality ELSE @.modality)]
             IN  [ok |-> TRUE, file |-> StaplesStore_save(updated)]

\* add_staple without the `any(existing.name == staple.name ...)` test
add_staple_Unchecked(file, staple) ==
    [ok |-> TRUE,
     file |-> StaplesStore_save(Append(StaplesStore_load(file), staple))]

\* add_staple: ValueError when the name is stored already, else append and save
add_staple(file, staple) ==
    LET staples == StaplesStore_load(file)
    IN  IF \E i \in DOMAIN staples : staples[i].name = staple.name
        THEN [ok |-> FALSE, file |-> file]
        ELSE [ok |-> TRUE, file |-> StaplesStore_save(Append(staples, staple))]

\* remove_staple returning quietly when nothing was filtered out
remove_staple_Quiet(file, name) ==
    LET staples == StaplesStore_load(file)
        Other(s) == s.name # name
        filtered == SelectSeq(staples, Other)
    IN  [ok |-> TRUE, file |-> StaplesStore_save(filtered)]

\* remove_staple: ValueError when no staple has the name, else save the rest
remove_staple(file, name) ==
    LET staples == StaplesStore_load(file)
        Other(s) == s.name # name
        filtered == SelectSeq(staples, Other)
    IN  IF Len(filtered) = Len(staples)
        THEN [ok |-> FALSE, file |-> file]
        ELSE [ok |-> TRUE, file |-> StaplesStore_save(filtered)]

\* ------------------------------------------------------------------------
\* Another kroget process on the same files: one invocation of a store
\* function, which reads the whole document and later writes it back
\* ------------------------------------------------------------------------
\* op: the function ("none": no other process); arg: its argument;
\* loaded: the document as store.load() read it
IdlePeer == [op |-> "none", arg |-> NoneV, pc |-> "idle", loaded |-> <<>>]

StapleOps == {"add_staple", "remove_staple", "update_staple"}

\* staples = store.load() in add_staple, remove_staple or update_staple
PeerLoadStaples ==
    /\ peer.op \in StapleOps
    /\ peer.pc = "idle"
    /\ peer' = [peer EXCEPT !.pc = "loaded", !.loaded = store]
    /\ UNCHANGED buildVars
    /\ UNCHANGED applyVars
    /\ UNCHANGED histVars
    /\ UNCHANGED <<rt, cand, cmd>>

\* the function working on the file as it is when it saves
PeerStaplesResult_Merging(p) ==
    CASE p.op = "add_staple" -> add_staple(store, p.arg)
      [] p.op = "remove_staple" -> remove_staple(store, p.arg)
      [] p.op = "update_staple" ->
            update_staple(store, p.arg.name, NoneV, NoQuantity,
                          p.arg.preferred_upc, NoneV)

\* what the function does with the staples it loaded
PeerStaplesResult(p) ==
    CASE p.op = "add_staple" -> add_staple(p.loaded, p.arg)
      [] p.op = "remove_staple" -> remove_staple(p.loaded, p.arg)
      [] p.op = "update_staple" ->
            update_staple(p.loaded, p.arg.name, NoneV, NoQuantity,
                          p.arg.preferred_upc, NoneV)

\* the rest of the function: raise ValueError, or store.save(staples)
PeerSaveStaples ==
    /\ peer.op \in StapleOps
    /\ peer.pc = "loaded"
    /\ LET res == PeerStaplesResult(peer)
       IN  /\ store' = IF res.ok THEN res.file ELSE store
           /\ peer' = [peer EXCEPT !.pc = IF res.ok THEN "done" ELSE "ValueError"]
    /\ UNCHANGED bld
    /\ UNCHANGED applyVars
    /\ UNCHANGED histVars
    /\ UNCHANGED <<rt, cand, cmd>>

\* sessions = store.load() in the other process's record_sent_session
PeerLoadHistory ==
    /\ peer.op = "record_sent_session"
    /\ peer.pc = "idle"
    /\ peer' = [peer EXCEPT !.pc = "loaded", !.loaded = SentItemsStore_load(histFile)]
    /\ UNCHANGED <<histFile, tmpFile, rec, recLog>>
    /\ UNCHANGED buildVars
    /\ UNCHANGED applyVars
    /\ UNCHANGED <<rt, cand, cmd>>

\* the rest of it: insert, truncate, and store.save up to the rename
PeerSaveHistory ==
    /\ peer.op = "record_sent_session"
    /\ peer.pc = "loaded"
    /\ histFile' = [exists |-> TRUE,
                    doc |-> SentItemsStore_payload(
                                Truncate(InsertFront(peer.loaded, peer.arg),
                                         MAX_SESSIONS)),
                    mode |-> "0600"]
    /\ peer' = [peer EXCEPT !.pc = "done"]
    /\ UNCHANGED <<tmpFile, rec, recLog>>
    /\ UNCHANGED buildVars
    /\ UNCHANGED applyVars
    /\ UNCHANGED <<rt, cand, cmd>>

\* ------------------------------------------------------------------------
\* The retailer's API as generate_proposal sees it
\* ------------------------------------------------------------------------
\* products_search(..., limit=5)
SearchLimit == 5

\* results.data[:3]
MaxAlternatives == 3

\* the j-th product of a search result
ProductIds == <<"id-1", "id-2", "id-3", "id-4", "id-5">>
Descriptions == <<"Alt Milk", "Eggs", "Whole Milk", "Oat Milk", "Soy Milk">>
ProdUpcs == <<"000221", "000222", "000223", "000224", "000225">>

\* product.items of the j-th product: no item dict has a "upc", or one has
ProductItems(j) ==
    {<<[size |-> "1 gal"]>>, <<[size |-> "1 gal"], [upc |-> ProdUpcs[j]]>>}

\* what get_product does for the j-th product: raises, or returns a payload
DetailOutcomes(j) ==
    {[err |-> TRUE, payload |-> <<>>],
     [err |-> FALSE, payload |-> <<>>],
     [err |-> FALSE, payload |-> <<[upc |-> ProdUpcs[j]]>>]}

\* what products_search does: raises, or returns n products
SearchOutcomes ==
    {[err |-> TRUE, msg |-> e, n |-> 0] : e \in {"HTTP 500"}}
        \cup {[err |-> FALSE, msg |-> "", n |-> n] : n \in 0..SearchLimit}

\* the str-valued "upc" fields of a list of item dicts, in order
UpcFields(dicts) ==
    LET HasUpc(d) == "upc" \in DOMAIN d
        kept == SelectSeq(dicts, HasUpc)
    IN  [k \in DOMAIN kept |-> kept[k].upc]

\* product_upc.extract_upcs(payload)
extract_upcs(payload) == UpcFields(payload)

\* `upcs` after the embedded scan and the detail fallback
\* (detail is what get_product does if it is called)
ResolveUpcs(embedded, detail) ==
    IF UpcFields(embedded) # <<>> THEN UpcFields(embedded)
    ELSE IF detail.err THEN <<>>
    ELSE extract_upcs(detail.payload)

\* whether the detail fetch is issued for a product
NeedsDetail(embedded) == UpcFields(embedded) = <<>>

\* ------------------------------------------------------------------------
\* proposal.py: generate_proposal
\* ------------------------------------------------------------------------
\* prior_auto_pin records that the invocation before this one ran to its end
\* with auto_pin = True; callback and updates record, for the current staple,
\* what confirm_pin returned ("none": not invoked) and how many times
\* update_staple was called
IdleBuild ==
    [pc |-> "idle", front |-> "none", auto_pin |-> FALSE, confirm_pin |-> FALSE,
     prior_auto_pin |-> FALSE,
     staples |-> <<>>, i |-> 0, n |-> 0, first |-> <<>>, j |-> 0,
     chosen |-> NoneV, source |-> NoneV, alternatives |-> <<>>,
     items |-> <<>>, pinned |-> <<>>, searches |-> 0, details |-> 0,
     callback |-> "none", updates |-> 0]

\* NeedsSearch as `True`: the search runs for every staple
NeedsSearch_Always(staple) == TRUE

\* `if not chosen_upc:` with chosen_upc = staple.preferred_upc
NeedsSearch(staple) == ~Truthy(staple.preferred_upc)

\* ErrorItem that carries on with the staple's term as upc
ErrorItem_WithUpc(staple, exc) ==
    ProposalItem(staple.name, staple.quantity, staple.modality, staple.term,
                 "search", <<>>, exc, <<>>)

\* the item appended when products_search raises KrogerAPIError
ErrorItem(staple, exc) ==
    ProposalItem(staple.name, staple.quantity, staple.modality, NoneV,
                 "search", <<>>, exc, <<>>)

\* ShouldPin that pins whenever a callback is given, whatever it returns
ShouldPin_IgnoresAnswer(auto_pin, confirm_pin, answer) ==
    auto_pin \/ confirm_pin

\* should_pin = auto_pin or (confirm_pin(staple, chosen_upc) if confirm_pin else False)
ShouldPin(auto_pin, confirm_pin, answer) ==
    auto_pin \/ (IF confirm_pin THEN answer ELSE FALSE)

\* what evaluating line 142-146 does with the callback: `or` does not
\* evaluate its right side under auto_pin, and without a callback there is
\* nothing to invoke ("none"); otherwise the callback returns `answer`
CallbackResult(auto_pin, confirm_pin, answer) ==
    IF auto_pin \/ ~confirm_pin THEN "none"
    ELSE IF answer THEN "True" ELSE "False"

\* lines 141-157: the pin decision and the store update
PinOutcome_Unpersisted(staple, chosen, source, auto_pin, confirm_pin, answer, file) ==
    IF Truthy(chosen) /\ ~Truthy(staple.preferred_upc)
    THEN LET cb == CallbackResult(auto_pin, confirm_pin, answer)
         IN  IF ShouldPin(auto_pin, confirm_pin, answer)
             THEN LET upd == update_staple(file, staple.name, NoneV, NoQuantity, chosen, NoneV)
                  IN  [pinned |-> upd.ok, source |-> "preferred", file |-> upd.file,
                       callback |-> cb, updates |-> 1]
             ELSE [pinned |-> FALSE, source |-> "preferred", file |-> file,
                   callback |-> cb, updates |-> 0]
    ELSE [pinned |-> Truthy(staple.preferred_upc), source |-> source, file |-> file,
          callback |-> "none", updates |-> 0]

PinOutcome(staple, chosen, source, auto_pin, confirm_pin, answer, file) ==
    IF Truthy(chosen) /\ ~Truthy(staple.preferred_upc)
    THEN LET cb == CallbackResult(auto_pin, confirm_pin, answer)
         IN  IF ShouldPin(auto_pin, confirm_pin, answer)
             THEN LET upd == update_staple(file, staple.name, NoneV, NoQuantity, chosen, NoneV)
                  IN  IF upd.ok
                      THEN [pinned |-> TRUE, source |-> "preferred", file |-> upd.file,
                            callback |-> cb, updates |-> 1]
                      ELSE [pinned |-> FALSE, source |-> source, file |-> upd.file,
                            callback |-> cb, updates |-> 1]
             ELSE [pinned |-> FALSE, source |-> source, file |-> file,
                   callback |-> cb, updates |-> 0]
    ELSE [pinned |-> Truthy(staple.preferred_upc), source |-> source, file |-> file,
          callback |-> "none", updates |-> 0]

\* pinned[name] written only when the staple is pinned
SetPinned_TrueOnly(pinned, name, value) ==
    IF value THEN (name :> value) @@ pinned ELSE pinned

\* pinned[name] = value
SetPinned(pinned, name, value) == (name :> value) @@ pinned

\* ------------------------------------------------------------------------
\* generate_proposal as a function of what the API and the callback answer:
\* env.search is what products_search does for the staple, env.prods[j] the
\* embedded items of the j-th product and what get_product does for it in
\* the alternatives loop, env.first_detail what get_product does for the
\* first product at line 130, env.answer what confirm_pin returns
\* ------------------------------------------------------------------------
\* lines 96-119: the alternatives of the first m products
AlternativesOf_AllResults(prods, m) ==
    LET Yields(j) == ResolveUpcs(prods[j].embedded, prods[j].detail) # <<>>
        kept == SelectSeq([j \in 1..Len(prods) |-> j], Yields)
    IN  [k \in DOMAIN kept |->
            ProposalAlternative(
                ResolveUpcs(prods[kept[k]].embedded, prods[kept[k]].detail)[1],
                Descriptions[kept[k]])]

AlternativesOf(prods, m) ==
    LET Yields(j) == ResolveUpcs(prods[j].embedded, prods[j].detail) # <<>>
        kept == SelectSeq([j \in 1..m |-> j], Yields)
    IN  [k \in DOMAIN kept |->
            ProposalAlternative(
                ResolveUpcs(prods[kept[k]].embedded, prods[kept[k]].detail)[1],
                Descriptions[kept[k]])]

\* lines 70-168: one iteration of `for staple in staples`; file is the
\* staples file before and after it
generate_item_Unguarded(staple, auto_pin, confirm_pin, env, file) ==
    LET m == IF ~NeedsSearch(staple) \/ env.search.err THEN 0
             ELSE IF env.search.n < MaxAlternatives THEN env.search.n
             ELSE MaxAlternatives
        raised == \/ \E j \in 1..m : NeedsDetail(env.prods[j].embedded)
                                        /\ env.prods[j].detail.err
                  \/ m > 0 /\ NeedsDetail(env.prods[1].embedded) /\ env.first_detail.err
    IN  IF (NeedsSearch(staple) /\ env.search.err) \/ raised
        THEN [item |-> ErrorItem(staple, "HTTP 500"), pinned |-> FALSE, file |-> file]
        ELSE LET first_upcs == IF m = 0 THEN <<>>
                               ELSE ResolveUpcs(env.prods[1].embedded, env.first_detail)
                 chosen == IF first_upcs # <<>> THEN first_upcs[1]
                           ELSE staple.preferred_upc
                 out == PinOutcome(staple, chosen,
                                   IF Truthy(staple.preferred_upc) THEN "preferred"
                                                                   ELSE "search",
                                   auto_pin, confirm_pin, env.answer, file)
             IN  [item |-> ProposalItem(staple.name, staple.quantity, staple.modality,
                                        chosen, out.source, <<>>, NoneV,
                                        AlternativesOf(env.prods, m)),
                  pinned |-> out.pinned,
                  file |-> out.file]

generate_item(staple, auto_pin, confirm_pin, env, file) ==
    IF NeedsSearch(staple) /\ env.search.err
    THEN [item |-> ErrorItem(staple, env.search.msg), pinned |-> FALSE, file |-> file]
    ELSE LET m == IF ~NeedsSearch(staple) THEN 0
                  ELSE IF env.search.n < MaxAlternatives THEN env.search.n
                  ELSE MaxAlternatives
             first_upcs == IF m = 0 THEN <<>>
                           ELSE ResolveUpcs(env.prods[1].embedded, env.first_detail)
             chosen == IF first_upcs # <<>> THEN first_upcs[1]
                       ELSE staple.preferred_upc
             out == PinOutcome(staple, chosen,
                               IF Truthy(staple.preferred_upc) THEN "preferred"
                                                               ELSE "search",
                               auto_pin, confirm_pin, env.answer, file)
         IN  [item |-> ProposalItem(staple.name, staple.quantity, staple.modality,
                                    chosen, out.source, <<>>, NoneV,
                                    AlternativesOf(env.prods, m)),
              pinned |-> out.pinned,
              file |-> out.file]

\* lines 65-69: the loop over the staples from the k-th on; acc holds items,
\* pinned and the staples file so far
RECURSIVE generate_proposal_loop(_, _, _, _, _, _)
generate_proposal_loop(staples, k, auto_pin, confirm_pin, envs, acc) ==
    IF k > Len(staples) THEN acc
    ELSE LET r == generate_item(staples[k], auto_pin, confirm_pin, envs[k], acc.file)
         IN  generate_proposal_loop(staples, k + 1, auto_pin, confirm_pin, envs,
                 [items |-> Append(acc.items, r.item),
                  pinned |-> SetPinned(acc.pinned, staples[k].name, r.pinned),
                  file |-> r.file])

\* generate_proposal(staples=..., auto_pin=..., confirm_pin=...): the items,
\* the pinned dict and the staples file when it returns
generate_proposal(staples, auto_pin, confirm_pin, envs, file) ==
    generate_proposal_loop(staples, 1, auto_pin, confirm_pin, envs,
                           [items |-> <<>>, pinned |-> <<>>, file |-> file])

\* ------------------------------------------------------------------------
\* One staple against every answer of the API
\* ------------------------------------------------------------------------
\* a second UPC of each product
SecondUpcs == <<"000231", "000232", "000233", "000234", "000235">>

\* product.items of the j-th search result: no dict with a str "upc", one,
\* or two of them
EmbeddedLists(j) ==
    ProductItems(j)
        \cup {<<[upc |-> ProdUpcs[j]], [size |-> "1 gal"], [upc |-> SecondUpcs[j]]>>}

\* what get_product does for the j-th product, a payload with two UPCs included
DetailResults(j) ==
    DetailOutcomes(j)
        \cup {[err |-> FALSE, payload |-> <<[upc |-> SecondUpcs[j]], [upc |-> ProdUpcs[j]]>>]}

DetailFails == [err |-> TRUE, payload |-> <<>>]

\* the j-th search result with what get_product does for it in the loop of
\* lines 97-119 (no call is made when a UPC is embedded, nor for a result
\* past the third, which carries an embedded UPC)
Candidates(j) ==
    IF j > MaxAlternatives
    THEN {[embedded |-> <<[size |-> "1 gal"], [upc |-> ProdUpcs[j]]>>,
           detail |-> DetailFails]}
    ELSE {c \in [embedded : EmbeddedLists(j), detail : DetailResults(j)] :
             NeedsDetail(c.embedded) \/ c.detail = DetailFails}

\* results.data of a search that returns n products
RECURSIVE ProductLists(_)
ProductLists(n) ==
    IF n = 0 THEN {<<>>}
    ELSE {Append(ps, c) : ps \in ProductLists(n - 1), c \in Candidates(n)}

\* what the second get_product for results.data[0] (lines 128-137) does
FirstDetails(prods) ==
    IF prods = <<>> \/ ~NeedsDetail(prods[1].embedded) THEN {DetailFails}
    ELSE DetailResults(1)

EnvsOf(so, ps) ==
    {[search |-> so, prods |-> ps, first_detail |-> fd, answer |-> FALSE] :
        fd \in FirstDetails(ps)}

ResolveEnvs ==
    UNION {UNION {EnvsOf(so, ps) : ps \in ProductLists(so.n)} : so \in SearchOutcomes}

\* a staple with no preferred UPC, an empty one (`staples add --upc ""`,
\* cli.py:509-522) and a real one
CandStaples ==
    {Staple(ItemNames[1], ItemNames[1], Quantities[1], u, ItemModalities[1]) :
        u \in {NoneV, "", "000111"}}

\* generate_proposal reaches the staple: lines 70-168 run against the answers
GenerateItem ==
    /\ cand.pc = "input"
    /\ cand' = [cand EXCEPT
                  !.pc = "built",
                  !.out = generate_item(cand.staple, cand.auto_pin, FALSE, cand.env,
                                        cand.file)]
    /\ UNCHANGED <<rt, buildVars, peer, cmd>>
    /\ UNCHANGED applyVars
    /\ UNCHANGED histVars

\* The API behaviours the interactive sessions are run against: the search
\* fails; two products, both with an embedded UPC; two products, the first
\* without any UPC (its detail fetch fails), the second with an embedded one
SessionEnvs ==
    LET none(j) == [embedded |-> <<[size |-> "1 gal"]>>,
                    detail |-> [err |-> TRUE, payload |-> <<>>]]
        some(j) == [embedded |-> <<[size |-> "1 gal"], [upc |-> ProdUpcs[j]]>>,
                    detail |-> [err |-> TRUE, payload |-> <<>>]]
        fail == [err |-> TRUE, payload |-> <<>>]
    IN  {[search |-> [err |-> TRUE, msg |-> "HTTP 500", n |-> 0],
          prods |-> <<>>, first_detail |-> fail, answer |-> a] : a \in BOOLEAN}
        \cup
        {[search |-> [err |-> FALSE, msg |-> "", n |-> 2],
          prods |-> <<some(1), some(2)>>, first_detail |-> fail, answer |-> a] :
            a \in BOOLEAN}
        \cup
        {[search |-> [err |-> FALSE, msg |-> "", n |-> 2],
          prods |-> <<none(1), some(2)>>, first_detail |-> fail, answer |-> a] :
            a \in BOOLEAN}

\* The caller loads the staples and calls generate_proposal, which gets the
\* client-credentials token: staples_propose (cli.py) with or without
\* --auto-pin, refresh_data (tui.py), or a direct call ("call") that passes
\* auto_pin = True together with a callback
BuildStart ==
    /\ bld.pc \in {"idle", "done", "exit1"}
    /\ \E front \in {"cli", "tui", "call"}, auto \in BOOLEAN, tok \in {"ok", "KrogerAuthError"} :
          /\ front = "tui" => ~auto
          /\ front = "call" => auto
          /\ LET staples == StaplesStore_load(store)
             IN  bld' = IF (staples = <<>> /\ front # "call") \/ tok # "ok"
                        THEN [IdleBuild EXCEPT !.pc = "exit1", !.front = front]
                        ELSE [IdleBuild EXCEPT !.pc = "head",
                                               !.front = front,
                                               !.prior_auto_pin =
                                                   (bld.pc = "done" /\ bld.auto_pin),
                                               !.auto_pin = auto,
                                               !.confirm_pin =
                                                   ((front = "cli" /\ ~auto) \/ front = "call"),
                                               !.staples = staples]
    /\ UNCHANGED store
    /\ UNCHANGED peer
    /\ UNCHANGED applyVars
    /\ UNCHANGED histVars
    /\ UNCHANGED <<rt, cand, cmd>>

\* `for staple in staples:` and lines 70-72
StapleStart ==
    /\ bld.pc = "head"
    /\ bld.i < Len(bld.staples)
    /\ LET staple == bld.staples[bld.i + 1]
       IN  bld' = [bld EXCEPT !.i = @ + 1,
                              !.chosen = staple.preferred_upc,
                              !.alternatives = <<>>,
                              !.source = IF Truthy(staple.preferred_upc)
                                         THEN "preferred" ELSE "search",
                              !.searches = 0,
                              !.details = 0,
                              !.callback = "none",
                              !.updates = 0,
                              !.pc = IF NeedsSearch(staple) THEN "search" ELSE "pin"]
    /\ UNCHANGED store
    /\ UNCHANGED peer
    /\ UNCHANGED applyVars
    /\ UNCHANGED histVars
    /\ UNCHANGED <<rt, cand, cmd>>

\* lines 75-95: client.products_search and its KrogerAPIError handler
Search ==
    /\ bld.pc = "search"
    /\ \E out \in SearchOutcomes :
          LET staple == bld.staples[bld.i]
          IN  bld' = IF out.err
                     THEN [bld EXCEPT !.searches = 0,
                                      !.items = Append(@, ErrorItem(staple, out.msg)),
                                      !.pinned = SetPinned(@, staple.name, FALSE),
                                      !.pc = "head"]
                     ELSE [bld EXCEPT !.searches = @ + 1,
                                      !.n = out.n,
                                      !.j = 1,
                                      !.pc = IF out.n = 0 THEN "pin" ELSE "alts"]
    /\ UNCHANGED store
    /\ UNCHANGED peer
    /\ UNCHANGED applyVars
    /\ UNCHANGED histVars
    /\ UNCHANGED <<rt, cand, cmd>>

\* lines 97-119: one iteration of `for product in results.data[:3]`
Alternative ==
    /\ bld.pc = "alts"
    /\ \E embedded \in ProductItems(bld.j), detail \in DetailOutcomes(bld.j) :
          LET upcs == ResolveUpcs(embedded, detail)
              last == bld.j = MaxAlternatives \/ bld.j = bld.n
          IN  bld' = [bld EXCEPT
                        !.first = IF bld.j = 1 THEN embedded ELSE @,
                        !.details = IF NeedsDetail(embedded) THEN @ + 1 ELSE @,
                        !.alternatives =
                            IF upcs # <<>>
                            THEN Append(@, ProposalAlternative(upcs[1], Descriptions[bld.j]))
                            ELSE @,
                        !.j = IF last THEN 0 ELSE @ + 1,
                        !.pc = IF last THEN "first" ELSE "alts"]
    /\ UNCHANGED store
    /\ UNCHANGED peer
    /\ UNCHANGED applyVars
    /\ UNCHANGED histVars
    /\ UNCHANGED <<rt, cand, cmd>>

\* lines 121-139: the chosen UPC, from results.data[0]
First ==
    /\ bld.pc = "first"
    /\ \E detail \in DetailOutcomes(1) :
          LET first_upcs == ResolveUpcs(bld.first, detail)
          IN  bld' = [bld EXCEPT
                        !.details = IF NeedsDetail(bld.first) THEN @ + 1 ELSE @,
                        !.chosen = IF first_upcs # <<>> THEN first_upcs[1] ELSE @,
                        !.pc = "pin"]
    /\ UNCHANGED store
    /\ UNCHANGED peer
    /\ UNCHANGED applyVars
    /\ UNCHANGED histVars
    /\ UNCHANGED <<rt, cand, cmd>>

\* lines 141-168: the pin decision, update_staple and items.append
Pin ==
    /\ bld.pc = "pin"
    /\ \E answer \in BOOLEAN :
          LET staple == bld.staples[bld.i]
              out == PinOutcome(staple, bld.chosen, bld.source, bld.auto_pin,
                                bld.confirm_pin, answer, store)
          IN  /\ store' = out.file
              /\ bld' = [bld EXCEPT
                           !.source = out.source,
                           !.pinned = SetPinned(@, staple.name, out.pinned),
                           !.items = Append(@,
                               ProposalItem(staple.name, staple.quantity,
                                            staple.modality, bld.chosen, out.source,
                                            <<>>, NoneV, bld.alternatives)),
                           !.n = 0,
                           !.first = <<>>,
                           !.searches = 0,
                           !.details = 0,
                           !.callback = out.callback,
                           !.updates = out.updates,
                           !.pc = "head"]
    /\ UNCHANGED peer
    /\ UNCHANGED applyVars
    /\ UNCHANGED histVars
    /\ UNCHANGED <<rt, cand, cmd>>

\* lines 147-153 when store.save raises OSError inside update_staple (the
\* staples file or its directory cannot be written): only ValueError is
\* caught, so the exception leaves generate_proposal
PinSaveFails ==
    /\ bld.pc = "pin"
    /\ \E answer \in BOOLEAN :
          LET staple == bld.staples[bld.i]
          IN  /\ Truthy(bld.chosen)
              /\ ~Truthy(staple.preferred_upc)
              /\ ShouldPin(bld.auto_pin, bld.confirm_pin, answer)
              /\ update_staple(store, staple.name, NoneV, NoQuantity, bld.chosen, NoneV).ok
              /\ bld' = [bld EXCEPT
                           !.callback = CallbackResult(bld.auto_pin, bld.confirm_pin, answer),
                           !.updates = 1,
                           !.pc = "crashed"]
    /\ UNCHANGED store
    /\ UNCHANGED peer
    /\ UNCHANGED applyVars
    /\ UNCHANGED histVars
    /\ UNCHANGED <<rt, cand, cmd>>

\* the Proposal of lines 170-175
BuiltProposal(b) == Proposal("1", Times[1], "01400441", b.items, <<>>)

\* lines 170-176: generate_proposal returns (BuiltProposal(bld), bld.pinned)
BuildReturn ==
    /\ bld.pc = "head"
    /\ bld.i = Len(bld.staples)
    /\ bld' = [bld EXCEPT !.pc = "done"]
    /\ UNCHANGED applyVars
    /\ UNCHANGED store
    /\ UNCHANGED peer
    /\ UNCHANGED histVars
    /\ UNCHANGED <<rt, cand, cmd>>

\* the staples file before the build: up to MaxStaples staples with distinct
\* names, each with or without a preferred UPC
StoreFiles ==
    {[i \in 1..Len(u) |->
         Staple_to_dict(Staple(ItemNames[i], ItemNames[i], Quantities[i], u[i],
                               ItemModalities[i]))] :
       u \in SeqsUpTo({NoneV, "000111"}, MaxStaples)}

\* ------------------------------------------------------------------------
\* proposal.py: apply_proposal_items
\* ------------------------------------------------------------------------
\* locals of one invocation: before the loop. `items` is the list object the
\* caller passes, proposal.items itself: shared tells that the Proposal the
\* caller holds still is the one this list belongs to
NewRun(pc, items, stop_on_error) ==
    [pc |-> pc, items |-> items, stop_on_error |-> stop_on_error, idx |-> 0,
     success |-> 0, failed |-> 0, errors |-> <<>>, results |-> <<>>,
     calls |-> <<>>, halted |-> FALSE, shared |-> TRUE]

\* client.add_to_cart(token, product_id=item.upc, quantity=..., modality=...)
\* pos (the item's place in the list) and outcome (what the call did) are
\* kept with the call for the properties below
CartCall(pos, item, outcome) ==
    [pos |-> pos, product_id |-> item.upc, quantity |-> item.quantity,
     modality |-> item.modality, outcome |-> outcome]

\* apply_proposal_items with `failed += 1` left out of the missing-UPC branch
apply_proposal_items_MissingNotCounted(r, item, outcome) ==
    IF ~Truthy(item.upc)
    THEN [r EXCEPT !.idx = @ + 1,
                   !.errors = Append(@, <<"Missing UPC for ", item.name>>),
                   !.halted = r.stop_on_error]
    ELSE IF outcome = "ok"
    THEN [r EXCEPT !.idx = @ + 1,
                   !.calls = Append(@, CartCall(r.idx + 1, item, outcome)),
                   !.success = @ + 1]
    ELSE [r EXCEPT !.idx = @ + 1,
                   !.calls = Append(@, CartCall(r.idx + 1, item, outcome)),
                   !.failed = @ + 1,
                   !.errors = Append(@, <<"Failed to add ", item.name, ": ", outcome>>),
                   !.halted = r.stop_on_error]

\* apply_proposal_items with the `break` of the KrogerAPIError handler left out
apply_proposal_items_NoBreakOnApiError(r, item, outcome) ==
    IF ~Truthy(item.upc)
    THEN [r EXCEPT !.idx = @ + 1,
                   !.failed = @ + 1,
                   !.errors = Append(@, <<"Missing UPC for ", item.name>>),
                   !.halted = r.stop_on_error]
    ELSE IF outcome = "ok"
    THEN [r EXCEPT !.idx = @ + 1,
                   !.calls = Append(@, CartCall(r.idx + 1, item, outcome)),
                   !.success = @ + 1]
    ELSE [r EXCEPT !.idx = @ + 1,
                   !.calls = Append(@, CartCall(r.idx + 1, item, outcome)),
                   !.failed = @ + 1,
                   !.errors = Append(@, <<"Failed to add ", item.name, ": ", outcome>>)]

\* apply_proposal_items breaking on a KrogerAPIError whatever stop_on_error is
apply_proposal_items_AlwaysBreak(r, item, outcome) ==
    IF ~Truthy(item.upc)
    THEN [r EXCEPT !.idx = @ + 1,
                   !.failed = @ + 1,
                   !.errors = Append(@, <<"Missing UPC for ", item.name>>),
                   !.halted = r.stop_on_error]
    ELSE IF outcome = "ok"
    THEN [r EXCEPT !.idx = @ + 1,
                   !.calls = Append(@, CartCall(r.idx + 1, item, outcome)),
                   !.success = @ + 1]
    ELSE [r EXCEPT !.idx = @ + 1,
                   !.calls = Append(@, CartCall(r.idx + 1, item, outcome)),
                   !.failed = @ + 1,
                   !.errors = Append(@, <<"Failed to add ", item.name, ": ", outcome>>),
                   !.halted = TRUE]

\* apply_proposal_items testing `item.upc is None` instead of `not item.upc`
apply_proposal_items_EmptyUpcSent(r, item, outcome) ==
    IF item.upc = NoneV
    THEN [r EXCEPT !.idx = @ + 1,
                   !.failed = @ + 1,
                   !.errors = Append(@, <<"Missing UPC for ", item.name>>),
                   !.halted = r.stop_on_error]
    ELSE IF outcome = "ok"
    THEN [r EXCEPT !.idx = @ + 1,
                   !.calls = Append(@, CartCall(r.idx + 1, item, outcome)),
                   !.success = @ + 1]
    ELSE [r EXCEPT !.idx = @ + 1,
                   !.calls = Append(@, CartCall(r.idx + 1, item, outcome)),
                   !.failed = @ + 1,
                   !.errors = Append(@, <<"Failed to add ", item.name, ": ", outcome>>),
                   !.halted = r.stop_on_error]

\* apply_proposal_items putting each new message in front of the others
apply_proposal_items_NewestFirst(r, item, outcome) ==
    IF ~Truthy(item.upc)
    THEN [r EXCEPT !.idx = @ + 1,
                   !.failed = @ + 1,
                   !.errors = <<<<"Missing UPC for ", item.name>>>> \o @,
                   !.halted = r.stop_on_error]
    ELSE IF outcome = "ok"
    THEN [r EXCEPT !.idx = @ + 1,
                   !.calls = Append(@, CartCall(r.idx + 1, item, outcome)),
                   !.success = @ + 1]
    ELSE [r EXCEPT !.idx = @ + 1,
                   !.calls = Append(@, CartCall(r.idx + 1, item, outcome)),
                   !.failed = @ + 1,
                   !.errors = <<<<"Failed to add ", item.name, ": ", outcome>>>> \o @,
                   !.halted = r.stop_on_error]

\* one iteration of `for item in items`; outcome is what add_to_cart does
\* when called: "ok", or the KrogerAPIError it raises
apply_proposal_items(r, item, outcome) ==
    IF ~Truthy(item.upc)
    THEN [r EXCEPT !.idx = @ + 1,
                   !.failed = @ + 1,
                   !.errors = Append(@, <<"Missing UPC for ", item.name>>),
                   !.halted = r.stop_on_error]
    ELSE IF outcome = "ok"
    THEN [r EXCEPT !.idx = @ + 1,
                   !.calls = Append(@, CartCall(r.idx + 1, item, outcome)),
                   !.success = @ + 1]
    ELSE [r EXCEPT !.idx = @ + 1,
                   !.calls = Append(@, CartCall(r.idx + 1, item, outcome)),
                   !.failed = @ + 1,
                   !.errors = Append(@, <<"Failed to add ", item.name, ": ", outcome>>),
                   !.halted = r.stop_on_error]

\* the ApplyItemResult appended for the item of one iteration
ApplyItemResult(item, outcome) ==
    IF ~Truthy(item.upc)
    THEN [item |-> item, status |-> "failed", error |-> "missing upc"]
    ELSE IF outcome = "ok"
    THEN [item |-> item, status |-> "success", error |-> NoneV]
    ELSE [item |-> item, status |-> "failed", error |-> outcome]

\* the loop has ended: list exhausted, or `break`
LoopEnded(r) == r.pc = "loop" /\ (r.halted \/ r.idx >= Len(r.items))

ApplyStep(k) ==
    /\ k \in DOMAIN runs
    /\ runs[k].pc = "loop"
    /\ ~LoopEnded(runs[k])
    /\ \E outcome \in {"ok"} \cup ApiErrors :
          LET r == runs[k]
              item == r.items[r.idx + 1]
          IN  runs' = [runs EXCEPT ![k] =
                          [apply_proposal_items(r, item, outcome) EXCEPT
                              !.results = Append(@, ApplyItemResult(item, outcome))]]
    /\ UNCHANGED <<ui, host, proposalFile, argv, cliPc, proposal, confirmed, span,
                   tuiScreen, tuiDismissed>>
    /\ UNCHANGED histVars
    /\ UNCHANGED <<rt, cand, cmd>>
    /\ UNCHANGED buildVars
    /\ UNCHANGED peer

\* ------------------------------------------------------------------------
\* sent_items.py: session_from_apply_results, record_sent_session
\* ------------------------------------------------------------------------
session_from_apply_results(results, location_id, sources, started_at, finished_at, session_id, now, fresh_id) ==
    SentSession(
        IF Truthy(session_id) THEN session_id ELSE fresh_id,
        IF Truthy(started_at) THEN started_at ELSE now,
        IF Truthy(finished_at) THEN finished_at ELSE now,
        location_id,
        sources,
        [i \in 1..Len(results) |->
            SentItem(results[i].item.name,
                     IF Truthy(results[i].item.upc) THEN results[i].item.upc ELSE "",
                     results[i].item.quantity,
                     results[i].item.modality,
                     results[i].status,
                     results[i].error)])

NoSession == [none |-> TRUE]

IdleRec == [pc |-> "idle", session |-> NoSession, sessions |-> <<>>, returned |-> <<>>]

\* record_sent_session is entered with `session`
RecEnter(session) ==
    /\ rec.pc = "idle"
    /\ rec' = [rec EXCEPT !.pc = "load", !.session = session]
    /\ recLog' = Append(recLog, session)

\* sessions = store.load()
RecLoad ==
    /\ rec.pc = "load"
    /\ rec' = [rec EXCEPT !.pc = "insert", !.sessions = SentItemsStore_load(histFile)]
    /\ UNCHANGED <<histFile, tmpFile, recLog>>
    /\ UNCHANGED applyVars
    /\ UNCHANGED <<rt, cand, cmd>>
    /\ UNCHANGED buildVars
    /\ UNCHANGED peer

\* sessions.insert(0, session)
RecInsert ==
    /\ rec.pc = "insert"
    /\ rec' = [rec EXCEPT !.pc = "truncate",
                          !.sessions = InsertFront(rec.sessions, rec.session)]
    /\ UNCHANGED <<histFile, tmpFile, recLog>>
    /\ UNCHANGED applyVars
    /\ UNCHANGED <<rt, cand, cmd>>
    /\ UNCHANGED buildVars
    /\ UNCHANGED peer

\* sessions = sessions[:max_sessions]
RecTruncate ==
    /\ rec.pc = "truncate"
    /\ rec' = [rec EXCEPT !.pc = "write",
                          !.sessions = Truncate(rec.sessions, MAX_SESSIONS)]
    /\ UNCHANGED <<histFile, tmpFile, recLog>>
    /\ UNCHANGED applyVars
    /\ UNCHANGED <<rt, cand, cmd>>
    /\ UNCHANGED buildVars
    /\ UNCHANGED peer

\* SentItemsStore.save: tmp_path.write_text(json.dumps(payload))
RecWriteTmp ==
    /\ rec.pc \in {"write", "writing"}
    /\ tmpFile' = [exists |-> TRUE, doc |-> SentItemsStore_payload(rec.sessions),
                   mode |-> IF tmpFile.exists THEN tmpFile.mode ELSE "0644"]
    /\ rec' = [rec EXCEPT !.pc = "chmod"]
    /\ UNCHANGED <<histFile, recLog>>
    /\ UNCHANGED applyVars
    /\ UNCHANGED <<rt, cand, cmd>>
    /\ UNCHANGED buildVars
    /\ UNCHANGED peer

\* a file whose text is a proper prefix of a JSON document
TornDoc == [t |-> "torn"]

\* write_text has opened (created or truncated) a file and written part of
\* the text to the history path itself
RecWriteOpen_InPlace ==
    /\ rec.pc = "write"
    /\ histFile' = [exists |-> TRUE, doc |-> TornDoc,
                    mode |-> IF histFile.exists THEN histFile.mode ELSE "0644"]
    /\ rec' = [rec EXCEPT !.pc = "writing"]
    /\ UNCHANGED <<tmpFile, recLog>>
    /\ UNCHANGED applyVars
    /\ UNCHANGED <<rt, cand, cmd>>
    /\ UNCHANGED buildVars
    /\ UNCHANGED peer

\* SentItemsStore.save: tmp_path.write_text has opened (created or
\* truncated) the temporary file and written part of the text
RecWriteOpen ==
    /\ rec.pc = "write"
    /\ tmpFile' = [exists |-> TRUE, doc |-> TornDoc,
                   mode |-> IF tmpFile.exists THEN tmpFile.mode ELSE "0644"]
    /\ rec' = [rec EXCEPT !.pc = "writing"]
    /\ UNCHANGED <<histFile, recLog>>
    /\ UNCHANGED applyVars
    /\ UNCHANGED <<rt, cand, cmd>>
    /\ UNCHANGED buildVars
    /\ UNCHANGED peer

\* the process dies inside record_sent_session; the files stay as they are
RecCrash ==
    /\ rec.pc \in {"load", "insert", "truncate", "write", "writing", "chmod",
                   "replace", "return"}
    /\ rec' = [rec EXCEPT !.pc = "crashed"]
    /\ UNCHANGED <<histFile, tmpFile, recLog>>
    /\ UNCHANGED applyVars
    /\ UNCHANGED <<rt, cand, cmd>>
    /\ UNCHANGED buildVars
    /\ UNCHANGED peer

\* a new process, with nothing of the dead one's memory
RecRestart ==
    /\ rec.pc = "crashed"
    /\ rec' = [rec EXCEPT !.pc = "idle", !.session = NoSession, !.sessions = <<>>]
    /\ UNCHANGED <<histFile, tmpFile, recLog>>
    /\ UNCHANGED applyVars
    /\ UNCHANGED <<rt, cand, cmd>>
    /\ UNCHANGED buildVars
    /\ UNCHANGED peer

\* SentItemsStore.save: tmp_path.chmod(0o600)
RecChmod ==
    /\ rec.pc = "chmod"
    /\ tmpFile' = [tmpFile EXCEPT !.mode = "0600"]
    /\ rec' = [rec EXCEPT !.pc = "replace"]
    /\ UNCHANGED <<histFile, recLog>>
    /\ UNCHANGED applyVars
    /\ UNCHANGED <<rt, cand, cmd>>
    /\ UNCHANGED buildVars
    /\ UNCHANGED peer

\* SentItemsStore.save: tmp_path.replace(self.path)
RecReplace ==
    /\ rec.pc = "replace"
    /\ histFile' = tmpFile
    /\ tmpFile' = NoFile
    /\ rec' = [rec EXCEPT !.pc = "return"]
    /\ UNCHANGED recLog
    /\ UNCHANGED applyVars
    /\ UNCHANGED <<rt, cand, cmd>>
    /\ UNCHANGED buildVars
    /\ UNCHANGED peer

\* return sessions
RecReturn ==
    /\ rec.pc = "return"
    /\ rec' = [rec EXCEPT !.pc = "idle", !.returned = rec.sessions,
                          !.session = NoSession, !.sessions = <<>>]
    /\ UNCHANGED <<histFile, tmpFile, recLog>>

RecSteps == RecLoad \/ RecInsert \/ RecTruncate \/ RecWriteTmp \/ RecChmod \/ RecReplace

\* ------------------------------------------------------------------------
\* cli.py: proposal_apply
\* ------------------------------------------------------------------------
NoProposal == [ok |-> FALSE]

\* AfterLoad with the `if not yes:` prompt left out
AfterLoad_NoPrompt(a) ==
    IF ~a.apply THEN "done"
    ELSE "apply"

\* where proposal_apply goes once proposal and token are loaded: the dry-run
\* return, the confirmation prompt, or straight to the apply
AfterLoad(a) ==
    IF ~a.apply THEN "done"
    ELSE IF ~a.yes THEN "confirm"
    ELSE "apply"

\* _load_config, Proposal.load and auth.load_user_token, then the dry-run
\* branch; cfg and tok are what the environment and the token store hold
CliLoad ==
    /\ host = "cli"
    /\ cliPc = "start"
    /\ \E cfg \in {"ok", "ConfigError"}, tok \in {"ok", "KrogerAuthError"} :
          LET loaded == Proposal_load(proposalFile.doc)
          IN  IF cfg # "ok" THEN
                  /\ cliPc' = "exit1"
                  /\ UNCHANGED proposal
              ELSE IF ~loaded.ok THEN
                  /\ cliPc' = "crashed"
                  /\ UNCHANGED proposal
              ELSE IF tok # "ok" THEN
                  /\ cliPc' = "exit1"
                  /\ proposal' = loaded
              ELSE
                  /\ proposal' = loaded
                  /\ cliPc' = AfterLoad(argv)
    /\ UNCHANGED <<ui, host, proposalFile, argv, confirmed, runs, span, tuiScreen,
                   tuiDismissed>>
    /\ UNCHANGED histVars
    /\ UNCHANGED <<rt, cand, cmd>>
    /\ UNCHANGED buildVars
    /\ UNCHANGED peer

\* typer.confirm("Apply proposal to cart?", default=False)
CliConfirm ==
    /\ host = "cli"
    /\ cliPc = "confirm"
    /\ \E answer \in BOOLEAN :
          /\ confirmed' = IF answer THEN "yes" ELSE "no"
          /\ cliPc' = IF answer THEN "apply" ELSE "exit1"
    /\ UNCHANGED <<ui, host, proposalFile, argv, proposal, runs, span, tuiScreen,
                   tuiDismissed>>
    /\ UNCHANGED histVars
    /\ UNCHANGED <<rt, cand, cmd>>
    /\ UNCHANGED buildVars
    /\ UNCHANGED peer

\* started_at = time.strftime(...); apply_proposal_items(...) is entered
CliApply ==
    /\ host = "cli"
    /\ cliPc = "apply"
    /\ \E t \in DOMAIN Times : span' = [span EXCEPT !.started_at = t]
    /\ runs' = Append(runs, NewRun("loop", proposal.value.items, argv.stop_on_error))
    /\ cliPc' = "applying"
    /\ UNCHANGED <<ui, host, proposalFile, argv, proposal, confirmed, tuiScreen,
                   tuiDismissed>>
    /\ UNCHANGED histVars
    /\ UNCHANGED <<rt, cand, cmd>>
    /\ UNCHANGED buildVars
    /\ UNCHANGED peer

\* apply_proposal_items returned: finished_at, session_from_apply_results,
\* and record_sent_session is entered
CliRecord ==
    /\ host = "cli"
    /\ cliPc = "applying"
    /\ LoopEnded(runs[1])
    /\ \E t \in DOMAIN Times, fresh_id \in {"uuid-1"} :
          /\ t >= span.started_at
          /\ span' = [span EXCEPT !.finished_at = t]
          /\ RecEnter(session_from_apply_results(runs[1].results,
                         proposal.value.location_id, proposal.value.sources,
                         Times[span.started_at], Times[t], NoneV, Times[t],
                         fresh_id))
    /\ runs' = [runs EXCEPT ![1].pc = "returned"]
    /\ cliPc' = "recording"
    /\ UNCHANGED <<ui, host, proposalFile, argv, proposal, confirmed, tuiScreen,
                   tuiDismissed, histFile, tmpFile, rt, cand, cmd, store, bld, peer>>

\* record_sent_session returned; "Applied: ..." is printed
CliDone ==
    /\ host = "cli"
    /\ cliPc = "recording"
    /\ RecReturn
    /\ cliPc' = "done"
    /\ UNCHANGED <<ui, host, proposalFile, argv, proposal, confirmed, runs, span,
                   tuiScreen, tuiDismissed, rt, cand, cmd, store, bld, peer>>

\* ------------------------------------------------------------------------
\* tui.py: action_apply, ConfirmScreen, _handle_confirm, _apply_proposal
\* ------------------------------------------------------------------------
\* KrogetApp.action_apply
action_apply ==
    /\ host = "tui"
    /\ tuiScreen = "main"
    /\ Len(tuiDismissed) < MaxConfirms
    /\ tuiScreen' = IF proposal.ok THEN "confirm" ELSE "main"
    /\ UNCHANGED <<ui, host, proposalFile, argv, cliPc, proposal, confirmed, runs,
                   span, tuiDismissed>>
    /\ UNCHANGED histVars
    /\ UNCHANGED <<rt, cand, cmd>>
    /\ UNCHANGED buildVars
    /\ UNCHANGED peer

\* ConfirmScreen.on_button_pressed dismisses with (button.id == "confirm_yes");
\* KrogetApp._handle_confirm receives the result
_handle_confirm(button) ==
    /\ host = "tui"
    /\ tuiScreen = "confirm"
    /\ LET confirmedArg == (button = "confirm_yes")
       IN  /\ tuiDismissed' = Append(tuiDismissed, button)
           /\ runs' = IF ~confirmedArg THEN runs
                      ELSE Append(runs, NewRun("token", <<>>, FALSE))
    /\ tuiScreen' = "main"
    /\ UNCHANGED <<ui, host, proposalFile, argv, cliPc, proposal, confirmed, span>>
    /\ UNCHANGED histVars
    /\ UNCHANGED <<rt, cand, cmd>>
    /\ UNCHANGED buildVars
    /\ UNCHANGED peer

\* KrogetApp._apply_proposal on the worker thread, up to the call of
\* apply_proposal_items
WorkerToken(k) ==
    /\ host = "tui"
    /\ k \in DOMAIN runs
    /\ runs[k].pc = "token"
    /\ \E tok \in {"ok", "KrogerAuthError"} :
          runs' = [runs EXCEPT ![k] =
                      IF tok # "ok" THEN [@ EXCEPT !.pc = "returned"]
                      ELSE [NewRun("loop",
                                   IF proposal.ok THEN proposal.value.items ELSE <<>>,
                                   FALSE)
                               EXCEPT !.shared = proposal.ok]]
    /\ UNCHANGED <<ui, host, proposalFile, argv, cliPc, proposal, confirmed, span,
                   tuiScreen, tuiDismissed>>
    /\ UNCHANGED histVars
    /\ UNCHANGED <<rt, cand, cmd>>
    /\ UNCHANGED buildVars
    /\ UNCHANGED peer

\* KrogetApp._apply_proposal after apply_proposal_items returned
WorkerDone(k) ==
    /\ host = "tui"
    /\ k \in DOMAIN runs
    /\ LoopEnded(runs[k])
    /\ runs' = [runs EXCEPT ![k].pc = "returned"]
    /\ UNCHANGED <<ui, host, proposalFile, argv, cliPc, proposal, confirmed, span,
                   tuiScreen, tuiDismissed>>
    /\ UNCHANGED histVars
    /\ UNCHANGED <<rt, cand, cmd>>
    /\ UNCHANGED buildVars
    /\ UNCHANGED peer

\* ------------------------------------------------------------------------
\* tui.py: refresh_data, the tables, the selection, action_delete, action_pin
\* ------------------------------------------------------------------------
\* the list object proposal.items after a mutation, as the workers that
\* iterate over it see it
ShareItems(rs, items) ==
    [k \in DOMAIN rs |->
        IF rs[k].shared /\ rs[k].pc = "loop" THEN [rs[k] EXCEPT !.items = items]
        ELSE rs[k]]

\* self.proposal is assigned: the list a worker iterates over no longer
\* belongs to the proposal the app holds
Unshare(rs) == [k \in DOMAIN rs |-> [rs[k] EXCEPT !.shared = FALSE]]

\* _update_alternatives: the rows of the alternatives table (IndexError
\* after alt_table.clear() leaves it empty)
AlternativeRows(p, proposal_index) ==
    IF ~p.ok \/ proposal_index = NoIndex THEN 0
    ELSE IF proposal_index >= Len(p.value.items) THEN 0
    ELSE Len(p.value.items[proposal_index + 1].alternatives)

\* _populate_tables: the rows of the proposal table
ProposalRows(p) == IF p.ok THEN Len(p.value.items) ELSE 0

\* the API behaviours of a TUI session: no callback is ever asked; the search
\* fails, or its top result carries a UPC
TuiEnvs ==
    {e \in SessionEnvs :
        /\ ~e.answer
        /\ e.search.err \/ ResolveUpcs(e.prods[1].embedded, e.prods[1].detail) # <<>>}

\* refresh_data, called by on_mount and by action_refresh
refresh_data ==
    /\ host = "tui"
    /\ tuiScreen \in {"start", "main"}
    /\ LET staples == StaplesStore_load(store)
       IN  \E tok \in {"ok", "KrogerAuthError"}, envs \in [1..Len(staples) -> TuiEnvs] :
              IF staples = <<>> \/ tok # "ok"
              THEN /\ proposal' = NoProposal
                   /\ ui' = [ui EXCEPT !.staples = staples, !.prop_rows = 0,
                                       !.alt_rows = 0]
                   /\ UNCHANGED store
              ELSE LET r == generate_proposal(staples, FALSE, FALSE, envs, store)
                   IN  /\ proposal' = [ok |-> TRUE,
                                       value |-> Proposal("1", Times[1], "01400441",
                                                          r.items, <<>>)]
                       /\ ui' = [ui EXCEPT !.staples = staples,
                                           !.pinned = r.pinned,
                                           !.prop_rows = Len(r.items),
                                           !.alt_rows = 0]
                       /\ store' = r.file
    /\ runs' = Unshare(runs)
    /\ tuiScreen' = "main"
    /\ UNCHANGED <<host, proposalFile, argv, cliPc, confirmed, span, tuiDismissed>>
    /\ UNCHANGED <<bld, peer, rt, cand, cmd>>
    /\ UNCHANGED histVars

\* on_data_table_row_selected for a row of the proposal table
select_proposal_row(row) ==
    /\ host = "tui"
    /\ tuiScreen = "main"
    /\ row \in 0..(ui.prop_rows - 1)
    /\ ui' = [ui EXCEPT !.proposal_index = row,
                        !.alt_rows = AlternativeRows(proposal, row)]
    /\ UNCHANGED <<host, proposalFile, argv, cliPc, proposal, confirmed, runs, span,
                   tuiScreen, tuiDismissed>>
    /\ UNCHANGED <<store, bld, peer, rt, cand, cmd>>
    /\ UNCHANGED histVars

\* on_data_table_row_selected for a row of the alternatives table
select_alternative_row(row) ==
    /\ host = "tui"
    /\ tuiScreen = "main"
    /\ row \in 0..(ui.alt_rows - 1)
    /\ ui' = [ui EXCEPT !.alternative_index = row]
    /\ UNCHANGED <<host, proposalFile, argv, cliPc, proposal, confirmed, runs, span,
                   tuiScreen, tuiDismissed>>
    /\ UNCHANGED <<store, bld, peer, rt, cand, cmd>>
    /\ UNCHANGED histVars

\* items with the one at 0-based index i deleted
DelItem(items, i) ==
    [k \in 1..(Len(items) - 1) |-> IF k <= i THEN items[k] ELSE items[k + 1]]

\* KrogetApp.action_delete; it returns early without a proposal or a
\* selected row, and `del` raises IndexError for an index past the end
action_delete ==
    /\ host = "tui"
    /\ tuiScreen = "main"
    /\ IF ~proposal.ok \/ ui.proposal_index = NoIndex
          \/ ui.proposal_index >= Len(proposal.value.items)
       THEN UNCHANGED <<proposal, runs, ui>>
       ELSE LET items == DelItem(proposal.value.items, ui.proposal_index)
            IN  /\ proposal' = [proposal EXCEPT !.value.items = items]
                /\ runs' = ShareItems(runs, items)
                /\ ui' = [ui EXCEPT !.proposal_index = NoIndex,
                                    !.alternative_index = NoIndex,
                                    !.prop_rows = Len(items),
                                    !.alt_rows = 0]
    /\ UNCHANGED <<host, proposalFile, argv, cliPc, confirmed, span,
                   tuiScreen, tuiDismissed>>
    /\ UNCHANGED <<store, bld, peer, rt, cand, cmd>>
    /\ UNCHANGED histVars

\* self.staples after `staple.preferred_upc = chosen.upc` on the first
\* staple of that name
PinStaple(staples, name, upc) ==
    LET hits == {i \in DOMAIN staples : staples[i].name = name}
    IN  IF hits = {} THEN staples
        ELSE [staples EXCEPT ![CHOOSE h \in hits : \A g \in hits : h <= g].preferred_upc = upc]

\* whether action_pin gets as far as update_staple
CanPin(p, u) ==
    /\ p.ok
    /\ u.proposal_index # NoIndex
    /\ u.alternative_index # NoIndex
    /\ u.proposal_index < Len(p.value.items)
    /\ u.alternative_index < Len(p.value.items[u.proposal_index + 1].alternatives)

\* KrogetApp.action_pin
action_pin ==
    /\ host = "tui"
    /\ tuiScreen = "main"
    /\ IF ~CanPin(proposal, ui)
       THEN UNCHANGED <<proposal, runs, ui, store>>
       ELSE LET item == proposal.value.items[ui.proposal_index + 1]
                chosen == item.alternatives[ui.alternative_index + 1]
                upd == update_staple(store, item.name, NoneV, NoQuantity,
                                     chosen.upc, NoneV)
                items == [proposal.value.items EXCEPT
                            ![ui.proposal_index + 1] =
                                [item EXCEPT !.upc = chosen.upc,
                                             !.source = "preferred"]]
            IN  IF ~upd.ok
                THEN UNCHANGED <<proposal, runs, ui, store>>
                ELSE /\ store' = upd.file
                     /\ proposal' = [proposal EXCEPT !.value.items = items]
                     /\ runs' = ShareItems(runs, items)
                     /\ ui' = [ui EXCEPT
                                 !.pinned = SetPinned(@, item.name, TRUE),
                                 !.staples = PinStaple(@, item.name, chosen.upc),
                                 !.prop_rows = Len(items),
                                 !.alt_rows = Len(item.alternatives)]
    /\ UNCHANGED <<host, proposalFile, argv, cliPc, confirmed, span,
                   tuiScreen, tuiDismissed>>
    /\ UNCHANGED <<bld, peer, rt, cand, cmd>>
    /\ UNCHANGED histVars

\* cli.py: staples_propose run by another process, from loading the staples
\* to the return of generate_proposal; bld holds what it returned
staples_propose ==
    /\ bld.pc = "idle"
    /\ LET staples == StaplesStore_load(store)
       IN  /\ staples # <<>>
           /\ \E auto \in BOOLEAN, envs \in [1..Len(staples) -> SessionEnvs] :
                 LET r == generate_proposal(staples, auto, ~auto, envs, store)
                 IN  /\ store' = r.file
                     /\ bld' = [IdleBuild EXCEPT !.pc = "done",
                                                !.front = "cli",
                                                !.auto_pin = auto,
                                                !.confirm_pin = ~auto,
                                                !.staples = staples,
                                                !.i = Len(staples),
                                                !.items = r.items,
                                                !.pinned = r.pinned]
    /\ UNCHANGED peer
    /\ UNCHANGED applyVars
    /\ UNCHANGED histVars
    /\ UNCHANGED <<rt, cand, cmd>>

\* ------------------------------------------------------------------------
\* Inputs of the apply specification
\* ------------------------------------------------------------------------
\* item.upc as a proposal file or a build can hold it: null, "", a UPC
ApplyUpcs == {NoneV, "", "000111"}

ApplyItemLists ==
    {[i \in 1..Len(u) |->
         ProposalItem(ItemNames[i], Quantities[i], ItemModalities[i], u[i],
                      NoneV, <<>>, NoneV, <<>>)] :
       u \in SeqsUpTo(ApplyUpcs, MaxItems)}

ApplyProposals ==
    {Proposal("1", "2024-01-01T00:00:00Z", "01400441", items, <<>>) :
       items \in ApplyItemLists}

NoSpan == [started_at |-> 0, finished_at |-> 0]

InitHist ==
    /\ histFile = NoFile
    /\ tmpFile = NoFile
    /\ rec = IdleRec
    /\ recLog = <<>>

IdleRt == [pc |-> "none", p |-> NoProposal, file |-> NoFile, loaded |-> NoProposal]

IdleCand == [pc |-> "none"]

\* no command is running
IdleCmd ==
    [name |-> "none", pc |-> "none",
     env |-> [KROGER_CLIENT_ID |-> NoneV, KROGER_CLIENT_SECRET |-> NoneV],
     args |-> [auto_pin |-> FALSE, apply |-> FALSE, yes |-> FALSE,
               stop_on_error |-> FALSE],
     staples |-> <<>>, envs |-> <<>>, calls |-> <<>>,
     items |-> <<>>, net |-> <<>>, run |-> NewRun("none", <<>>, FALSE),
     out |-> [exists |-> FALSE],
     recorded |-> <<>>, err |-> "<None>"]

IdleStore ==
    /\ store = <<>>
    /\ bld = IdleBuild
    /\ peer = IdlePeer

InitApply ==
    /\ rt = IdleRt
    /\ cand = IdleCand
    /\ cmd = IdleCmd
    /\ IdleStore
    /\ host \in {"cli", "tui"}
    /\ confirmed = "unasked"
    /\ runs = <<>>
    /\ span = NoSpan
    /\ tuiScreen = "main"
    /\ tuiDismissed = <<>>
    /\ ui = IdleUi
    /\ IF host = "cli"
       THEN /\ cliPc = "start"
            /\ proposalFile \in {FileOf(Proposal_save(p)) : p \in ApplyProposals}
            /\ argv \in [apply : BOOLEAN, yes : BOOLEAN, stop_on_error : BOOLEAN]
            /\ proposal = NoProposal
       ELSE /\ cliPc = "none"
            /\ proposalFile = NoFile
            /\ argv = [apply |-> FALSE, yes |-> FALSE, stop_on_error |-> FALSE]
            /\ proposal \in {NoProposal} \cup
                            {[ok |-> TRUE, value |-> p] : p \in ApplyProposals}
    /\ InitHist

NextApply ==
    \/ CliLoad
    \/ CliConfirm
    \/ CliApply
    \/ \E k \in DOMAIN runs : ApplyStep(k)
    \/ CliRecord
    \/ RecLoad
    \/ RecInsert
    \/ RecTruncate
    \/ RecWriteTmp
    \/ RecChmod
    \/ RecReplace
    \/ CliDone
    \/ action_apply
    \/ \E button \in {"confirm_yes", "confirm_no"} : _handle_confirm(button)
    \/ \E k \in DOMAIN runs : WorkerToken(k)
    \/ \E k \in DOMAIN runs : WorkerDone(k)

SpecApply == InitApply /\ [][NextApply]_vars

\* ------------------------------------------------------------------------
\* Properties of apply_proposal_items
\* ------------------------------------------------------------------------
\* the run is past its loop (or never entered it)
Ended(r) == r.pc = "returned" \/ LoopEnded(r)

\* the loop was left by `break` before the last item
HaltedEarly(r) == r.halted /\ r.idx < Len(r.items)

\* positions of the items that carry a UPC, in list order
UpcPositions(items) ==
    LET HasUpc(i) == Truthy(items[i].upc)
    IN  SelectSeq([i \in 1..Len(items) |-> i], HasUpc)

CallPositions(r) == [j \in 1..Len(r.calls) |-> r.calls[j].pos]

Prefix(items, n) == SubSeq(items, 1, n)

\* C3 as stated: for all apply runs, successCount + failedCount == len(items),
\* and len(results) == len(items) unless stopOnError triggered an early
\* halt, in which case len(results) <= len(items).
C3_TallyEqualsLenItems ==
    \A k \in DOMAIN runs :
        Ended(runs[k]) =>
            /\ runs[k].success + runs[k].failed = Len(runs[k].items)
            /\ IF HaltedEarly(runs[k])
               THEN Len(runs[k].results) <= Len(runs[k].items)
               ELSE Len(runs[k].results) = Len(runs[k].items)

\* C3 amended: for all apply runs, successCount + failedCount == len(results),
\* the number of items processed; it equals len(items) unless stopOnError
\* triggered an early halt, in which case it is < len(items).
C3_TallyEqualsProcessed ==
    \A k \in DOMAIN runs :
        Ended(runs[k]) =>
            /\ runs[k].success + runs[k].failed = Len(runs[k].results)
            /\ runs[k].success + runs[k].failed = runs[k].idx
            /\ IF HaltedEarly(runs[k])
               THEN /\ runs[k].stop_on_error
                    /\ Len(runs[k].results) < Len(runs[k].items)
               ELSE Len(runs[k].results) = Len(runs[k].items)

C3_Witness ==
    \E k \in DOMAIN runs :
        /\ runs[k].pc = "returned"
        /\ HaltedEarly(runs[k])
        /\ runs[k].success = 1
        /\ runs[k].failed = 1
        /\ Len(runs[k].items) = 3

\* position of the item named by the first error message
FailPos(r) == CHOOSE i \in 1..Len(r.items) : r.items[i].name = r.errors[1][2]

\* C4: with stop_on_error = true the run halts at the first failing item
\* (missing UPC or cart-add error): no cart-add call is issued for any item
\* after it, failedCount is at most 1, and every item before it succeeded.
C4_StopAtFirstFailure ==
    \A k \in DOMAIN runs :
        (runs[k].stop_on_error /\ runs[k].failed > 0) =>
            /\ runs[k].failed = 1
            /\ Len(runs[k].errors) = 1
            /\ runs[k].halted
            /\ runs[k].idx = FailPos(runs[k])
            /\ runs[k].success = FailPos(runs[k]) - 1
            /\ \A j \in DOMAIN runs[k].calls : runs[k].calls[j].pos <= FailPos(runs[k])
            /\ \A i \in 1..(FailPos(runs[k]) - 1) :
                  \E j \in DOMAIN runs[k].calls :
                      /\ runs[k].calls[j].pos = i
                      /\ runs[k].calls[j].outcome = "ok"

C4_Witness ==
    \E k \in DOMAIN runs :
        /\ runs[k].pc = "returned"
        /\ runs[k].stop_on_error
        /\ runs[k].failed = 1
        /\ FailPos(runs[k]) = 2
        /\ Len(runs[k].items) = 3
        /\ Truthy(runs[k].items[3].upc)
        /\ Len(runs[k].calls) = 2

\* C5: with stop_on_error = false every item that has a UPC gets exactly one
\* cart-add call, in list order, whatever happened to earlier items; when
\* every item has a UPC and every call succeeds, successCount is the number
\* of items, failedCount is 0 and the error list is empty.
C5_EveryItemAttempted ==
    \A k \in DOMAIN runs :
        (runs[k].pc # "token" /\ ~runs[k].stop_on_error) =>
            /\ ~runs[k].halted
            /\ CallPositions(runs[k]) = UpcPositions(Prefix(runs[k].items, runs[k].idx))
            /\ \A j \in DOMAIN runs[k].calls :
                  LET c == runs[k].calls[j]
                      item == runs[k].items[c.pos]
                  IN  /\ c.product_id = item.upc
                      /\ c.quantity = item.quantity
                      /\ c.modality = item.modality
            /\ Ended(runs[k]) =>
                  /\ runs[k].idx = Len(runs[k].items)
                  /\ ( /\ \A i \in DOMAIN runs[k].items : Truthy(runs[k].items[i].upc)
                       /\ \A j \in DOMAIN runs[k].calls : runs[k].calls[j].outcome = "ok" )
                     => /\ runs[k].success = Len(runs[k].items)
                        /\ runs[k].failed = 0
                        /\ runs[k].errors = <<>>

C5_Witness ==
    \E k \in DOMAIN runs :
        /\ runs[k].pc = "returned"
        /\ ~runs[k].stop_on_error
        /\ Len(runs[k].items) = 3
        /\ Len(runs[k].calls) = 3
        /\ runs[k].calls[1].outcome # "ok"
        /\ runs[k].calls[2].outcome = "ok"

\* number of i in S
Count(S) == Cardinality(S)

\* C6: an item whose upc is null or empty is never sent to cart-add; it is
\* counted as failed and "Missing UPC for <name>" is appended for it.
C6_MissingUpcNeverSent ==
    \A k \in DOMAIN runs :
        LET r == runs[k]
            missing == {i \in 1..r.idx : ~Truthy(r.items[i].upc)}
            failedCalls == {j \in DOMAIN r.calls : r.calls[j].outcome # "ok"}
            missingMsgs == {j \in DOMAIN r.errors : r.errors[j][1] = "Missing UPC for "}
        IN  /\ \A j \in DOMAIN r.calls : Truthy(r.calls[j].product_id)
            /\ \A i \in missing :
                  /\ \A j \in DOMAIN r.calls : r.calls[j].pos # i
                  /\ \E j \in missingMsgs : r.errors[j] = <<"Missing UPC for ", r.items[i].name>>
            /\ Count(missingMsgs) = Count(missing)
            /\ r.failed = Count(missing) + Count(failedCalls)

C6_Witness ==
    \E k \in DOMAIN runs :
        /\ runs[k].pc = "returned"
        /\ Len(runs[k].items) = 3
        /\ runs[k].items[1].upc = NoneV
        /\ runs[k].items[2].upc = ""
        /\ runs[k].failed = 2
        /\ Len(runs[k].calls) = 1

\* ------------------------------------------------------------------------
\* Properties of the confirmation gates
\* ------------------------------------------------------------------------
YesCount == Cardinality({i \in DOMAIN tuiDismissed : tuiDismissed[i] = "confirm_yes"})

SessionRecorded == recLog # <<>> \/ rec.pc # "idle" \/ histFile.exists \/ tmpFile.exists

\* C10: applying a proposal is gated by user confirmation. CLI: no cart-add
\* call is issued and no sent session is recorded unless --apply is given
\* and either --yes is given or the prompt is answered yes. TUI: no cart-add
\* call is issued unless the confirm screen was dismissed with "Apply".
C10_ApplyGated ==
    /\ host = "cli" =>
          ((runs # <<>> \/ SessionRecorded) =>
              argv.apply /\ (argv.yes \/ confirmed = "yes"))
    /\ host = "tui" =>
          /\ Len(runs) = YesCount
          /\ (\E k \in DOMAIN runs : runs[k].calls # <<>>) => YesCount > 0

C10_Witness ==
    /\ host = "cli"
    /\ ~argv.yes
    /\ confirmed = "yes"
    /\ cliPc = "done"
    /\ Len(runs[1].calls) = 2
    /\ histFile.exists

\* ------------------------------------------------------------------------
\* The history under a sequence of record_sent_session calls
\* (tests/test_sent_items.py: test_sent_items_prune)
\* ------------------------------------------------------------------------
IdleApply ==
    /\ host = "none"
    /\ proposalFile = NoFile
    /\ argv = [apply |-> FALSE, yes |-> FALSE, stop_on_error |-> FALSE]
    /\ cliPc = "none"
    /\ proposal = NoProposal
    /\ confirmed = "unasked"
    /\ runs = <<>>
    /\ span = NoSpan
    /\ tuiScreen = "main"
    /\ tuiDismissed = <<>>
    /\ ui = IdleUi

\* the session of the i-th call
PruneSession(i) == SentSession(ToString(i), Times[1], Times[2], NoneV, <<>>, <<>>)

\* record_sent_session(session, path=path, max_sessions=20) is called
RecordCall ==
    /\ host = "none"
    /\ Len(recLog) < MaxRecords
    /\ RecEnter(PruneSession(Len(recLog) + 1))
    /\ UNCHANGED <<histFile, tmpFile, rt, cand, cmd, store, bld, peer>>
    /\ UNCHANGED applyVars

\* the call returns to the test
RecordReturned ==
    /\ host = "none"
    /\ RecReturn
    /\ UNCHANGED applyVars
    /\ UNCHANGED <<rt, cand, cmd>>
    /\ UNCHANGED buildVars
    /\ UNCHANGED peer

InitHistory == IdleApply /\ InitHist /\ rt = IdleRt /\ cand = IdleCand /\ cmd = IdleCmd /\ IdleStore

NextHistory ==
    \/ RecordCall
    \/ RecLoad
    \/ RecInsert
    \/ RecTruncate
    \/ RecWriteTmp
    \/ RecChmod
    \/ RecReplace
    \/ RecordReturned

SpecHistory == InitHistory /\ [][NextHistory]_vars

\* ------------------------------------------------------------------------
\* record_sent_session with crashes, on a history that may be full
\* ------------------------------------------------------------------------
\* a history file holding n earlier sessions, most recent first
OldHistory(n) ==
    [exists |-> TRUE,
     doc |-> SentItemsStore_payload([i \in 1..n |-> PruneSession(100 + i)]),
     mode |-> "0600"]

InitCrash ==
    /\ IdleApply
    /\ IdleStore
    /\ rt = IdleRt
    /\ cand = IdleCand
    /\ cmd = IdleCmd
    /\ histFile \in {NoFile} \cup {OldHistory(n) : n \in {1, MAX_SESSIONS - 1, MAX_SESSIONS}}
    /\ tmpFile = NoFile
    /\ rec = IdleRec
    /\ recLog = <<>>

\* record_sent_session(session) is called
CrashCall ==
    /\ host = "none"
    /\ Len(recLog) < MaxCrashCalls
    /\ RecEnter(PruneSession(Len(recLog) + 1))
    /\ UNCHANGED <<histFile, tmpFile, rt, cand, cmd, store, bld, peer>>
    /\ UNCHANGED applyVars

NextCrash ==
    \/ CrashCall
    \/ RecLoad
    \/ RecInsert
    \/ RecTruncate
    \/ RecWriteOpen
    \/ RecWriteTmp
    \/ RecChmod
    \/ RecReplace
    \/ RecordReturned
    \/ RecCrash
    \/ RecRestart

SpecCrash == InitCrash /\ [][NextCrash]_vars

\* ------------------------------------------------------------------------
\* Two processes on the same staples file and the same history
\* ------------------------------------------------------------------------
\* the session the other process records
PeerSession == PruneSession(50)

InitRace ==
    /\ IdleApply
    /\ rt = IdleRt
    /\ cand = IdleCand
    /\ cmd = IdleCmd
    /\ histFile \in {NoFile, OldHistory(1)}
    /\ tmpFile = NoFile
    /\ rec = IdleRec
    /\ recLog = <<>>
    /\ store \in {f \in StoreFiles :
                     /\ Len(f) = 2
                     /\ \A i \in DOMAIN f : StaplesStore_load(f)[i].preferred_upc = NoneV}
    /\ bld = IdleBuild
    /\ \/ peer = [IdlePeer EXCEPT !.op = "remove_staple", !.arg = ItemNames[2]]
       \/ peer = [IdlePeer EXCEPT !.op = "add_staple",
                                  !.arg = Staple(ItemNames[3], ItemNames[3], Quantities[3],
                                                 NoneV, ItemModalities[3])]
       \/ peer = [IdlePeer EXCEPT !.op = "update_staple",
                                  !.arg = [name |-> ItemNames[2], preferred_upc |-> "000111"]]

\* the other process goes on to record a session
PeerNextCommand ==
    /\ peer.op \in StapleOps
    /\ peer.pc \in {"done", "ValueError"}
    /\ peer' = [IdlePeer EXCEPT !.op = "record_sent_session", !.arg = PeerSession]
    /\ UNCHANGED buildVars
    /\ UNCHANGED applyVars
    /\ UNCHANGED histVars
    /\ UNCHANGED <<rt, cand, cmd>>

NextRace ==
    \/ staples_propose
    \/ PeerLoadStaples
    \/ PeerSaveStaples
    \/ PeerNextCommand
    \/ PeerLoadHistory
    \/ PeerSaveHistory
    \/ (recLog = <<>> /\ CrashCall)
    \/ RecLoad
    \/ RecInsert
    \/ RecTruncate
    \/ RecWriteTmp
    \/ RecChmod
    \/ RecReplace
    \/ RecordReturned

SpecRace == InitRace /\ [][NextRace]_vars

Min(a, b) == IF a <= b THEN a ELSE b

\* C7: after n record_sent_session calls on an initially empty history with
\* max_sessions = 20, the persisted history holds exactly min(n, 20)
\* sessions, most recent first, and the dropped ones are the oldest n - 20.
C7_HistoryBound ==
    rec.pc = "idle" =>
        LET n == Len(recLog)
            persisted == SentItemsStore_load(histFile)
        IN  /\ Len(persisted) = Min(n, MAX_SESSIONS)
            /\ \A i \in 1..Len(persisted) : persisted[i] = recLog[n - i + 1]
            /\ \A j \in 1..(n - MAX_SESSIONS) :
                  \A i \in 1..Len(persisted) :
                      persisted[i].session_id # recLog[j].session_id
            /\ rec.returned = persisted

C7_Witness ==
    /\ rec.pc = "idle"
    /\ Len(recLog) = MAX_SESSIONS + 2
    /\ Len(SentItemsStore_load(histFile)) = MAX_SESSIONS
    /\ SentItemsStore_load(histFile)[1].session_id = "22"
    /\ SentItemsStore_load(histFile)[MAX_SESSIONS].session_id = "3"

\* ------------------------------------------------------------------------
\* Proposal.save followed by Proposal.load
\* (tests/test_proposal.py: test_proposal_serialize_roundtrip)
\* ------------------------------------------------------------------------
RtAlternatives ==
    {ProposalAlternative(upc, description) :
       upc \in {"000222"}, description \in {NoneV, "Alt Milk"}}

RtItems ==
    {ProposalItem("milk", 2, "PICKUP", upc, source, sources, notes, alternatives) :
       upc \in {NoneV, "", "000111"},
       source \in {NoneV, "search", "preferred"},
       sources \in {<<>>, <<"Weekly">>},
       notes \in {NoneV, "HTTP 500"},
       alternatives \in SeqsUpTo(RtAlternatives, MaxRtAlts)}

RtProposals ==
    {Proposal("1", Times[1], location_id, items, sources) :
       location_id \in {NoneV, "", "01400441"},
       items \in SeqsUpTo(RtItems, MaxRtItems),
       sources \in {<<>>, <<"Weekly">>}}

\* proposal.save(path)
RtSave ==
    /\ rt.pc = "new"
    /\ rt' = [rt EXCEPT !.pc = "saved", !.file = FileOf(Proposal_save(rt.p.value))]
    /\ UNCHANGED <<cand, cmd>>
    /\ UNCHANGED applyVars
    /\ UNCHANGED histVars
    /\ UNCHANGED buildVars
    /\ UNCHANGED peer

\* loaded = Proposal.load(path)
RtLoad ==
    /\ rt.pc = "saved"
    /\ rt' = [rt EXCEPT !.pc = "loaded", !.loaded = Proposal_load(rt.file.doc)]
    /\ UNCHANGED <<cand, cmd>>
    /\ UNCHANGED applyVars
    /\ UNCHANGED histVars
    /\ UNCHANGED buildVars
    /\ UNCHANGED peer

InitRoundTrip ==
    /\ IdleApply
    /\ IdleStore
    /\ InitHist
    /\ cand = IdleCand
    /\ cmd = IdleCmd
    /\ rt \in {[pc |-> "new", p |-> [ok |-> TRUE, value |-> p], file |-> NoFile,
                loaded |-> NoProposal] : p \in RtProposals}

NextRoundTrip == RtSave \/ RtLoad

SpecRoundTrip == InitRoundTrip /\ [][NextRoundTrip]_vars

InitBuild ==
    /\ IdleApply
    /\ InitHist
    /\ rt = IdleRt
    /\ cand = IdleCand
    /\ cmd = IdleCmd
    /\ store \in StoreFiles
    /\ bld = IdleBuild
    /\ peer = IdlePeer

NextBuild ==
    \/ BuildStart
    \/ StapleStart
    \/ Search
    \/ Alternative
    \/ First
    \/ Pin
    \/ BuildReturn

SpecBuild == InitBuild /\ [][NextBuild]_vars

\* the staple of the given name, read back from the staples file
StapleNamed(file, name) ==
    LET staples == StaplesStore_load(file)
    IN  staples[CHOOSE i \in DOMAIN staples : staples[i].name = name]

\* the step appends one item to the items of the running build
Appends == Len(bld'.items) = Len(bld.items) + 1

LastItem(b) == b.items[Len(b.items)]

Building == bld.pc \in {"head", "search", "alts", "first", "pin"}

NormalItem(staple, item) ==
    /\ item.notes = NoneV
    /\ item.sources = <<>>
    /\ Len(item.alternatives) <= MaxAlternatives
    /\ IF Truthy(staple.preferred_upc)
       THEN item.upc = staple.preferred_upc /\ item.source = "preferred"
                /\ item.alternatives = <<>>
       ELSE /\ item.upc \in {NoneV, ProdUpcs[1]}
            /\ item.source \in {"search", "preferred"}
            /\ item.source = "preferred" => item.upc # NoneV

\* the item of a staple whose search failed
FailedItem(staple, item) ==
    /\ item.upc = NoneV
    /\ item.source = "search"
    /\ item.notes \in ApiErrors
    /\ item.notes # ""
    /\ item.alternatives = <<>>
    /\ bld.pinned[staple.name] = FALSE

InvocationOver(k) ==
    IF host = "cli" THEN cliPc = "done" ELSE runs[k].pc = "returned"

\* the SentItems that correspond to the results of a run, in apply order
SentItemsOf(r) ==
    [i \in 1..Len(r.results) |->
        SentItem(r.results[i].item.name,
                 IF Truthy(r.results[i].item.upc) THEN r.results[i].item.upc ELSE "",
                 r.results[i].item.quantity, r.results[i].item.modality,
                 r.results[i].status, r.results[i].error)]

\* the runs that reached the applier and attempted an item, now over
AppliedRuns == {k \in DOMAIN runs : runs[k].idx > 0 /\ InvocationOver(k)}

\* C11: every apply invocation that reaches the applier, from the CLI or from
\* the TUI, records exactly one SentSession in the history once the apply
\* loop has finished, with one SentItem per attempted item in apply order,
\* failed ones included; nothing is recorded while a loop is running.
C11_OneSessionPerApply ==
    /\ Len(recLog) <= Cardinality({k \in DOMAIN runs : LoopEnded(runs[k]) \/ runs[k].pc = "returned"})
    /\ AppliedRuns # {} =>
          /\ Len(recLog) = Cardinality(AppliedRuns)
          /\ Len(SentItemsStore_load(histFile)) = Cardinality(AppliedRuns)
          /\ \A k \in AppliedRuns :
                \E i \in DOMAIN recLog : recLog[i].items = SentItemsOf(runs[k])

\* ------------------------------------------------------------------------
\* The pin policy
\* ------------------------------------------------------------------------
\* the staple whose item was appended last, and a build state right after it
\* was appended
LastStaple == bld.staples[bld.i]

JustAppended == bld.pc \in {"head", "done"} /\ bld.i > 0 /\ Len(bld.items) = bld.i

\* the last staple had no preferred UPC and resolved to a chosen UPC
ResolvedBySearch ==
    /\ JustAppended
    /\ ~Truthy(LastStaple.preferred_upc)
    /\ LastItem(bld).notes = NoneV
    /\ Truthy(LastItem(bld).upc)

\* C12: for a staple without preferred UPC that resolves to a chosen UPC,
\* update_staple is called exactly when the pin policy accepts: always under
\* auto_pin, and then the callback is not invoked; exactly when the callback
\* returns true if only a callback is given; never when neither is given.
\* When the policy declines or is absent, pinned[name] is false and the item
\* keeps source "search".
C12_PinPolicy ==
    ResolvedBySearch =>
        /\ bld.auto_pin => bld.updates = 1 /\ bld.callback = "none"
        /\ (~bld.auto_pin /\ bld.confirm_pin) =>
              /\ bld.callback \in {"True", "False"}
              /\ bld.updates = (IF bld.callback = "True" THEN 1 ELSE 0)
        /\ (~bld.auto_pin /\ ~bld.confirm_pin) =>
              bld.updates = 0 /\ bld.callback = "none"
        /\ bld.updates = 0 =>
              /\ bld.pinned[LastStaple.name] = FALSE
              /\ LastItem(bld).source = "search"

\* a staple resolved by search whose pin the callback declined, in a build
\* that went on to its end
C12_Witness ==
    /\ bld.pc = "done"
    /\ ResolvedBySearch
    /\ bld.confirm_pin
    /\ bld.callback = "False"
    /\ bld.updates = 0
    /\ LastItem(bld).source = "search"
    /\ StapleNamed(store, LastStaple.name).preferred_upc = NoneV

\* ------------------------------------------------------------------------
\* Builds while the staples file is out of the build's hands: another
\* process removes a staple, or the file cannot be written
\* ------------------------------------------------------------------------
FaultStores == {s \in StoreFiles : Len(s) = 2}

InitBuildFaults ==
    /\ IdleApply
    /\ InitHist
    /\ rt = IdleRt
    /\ cand = IdleCand
    /\ cmd = IdleCmd
    /\ store \in FaultStores
    /\ bld = IdleBuild
    /\ peer \in {[IdlePeer EXCEPT !.op = "remove_staple", !.arg = ItemNames[i]] : i \in 1..2}

NextBuildFaults ==
    \/ (bld.pc = "idle" /\ BuildStart)
    \/ StapleStart
    \/ Search
    \/ Alternative
    \/ First
    \/ Pin
    \/ PinSaveFails
    \/ BuildReturn
    \/ PeerLoadStaples
    \/ PeerSaveStaples

SpecBuildFaults == InitBuildFaults /\ [][NextBuildFaults]_vars

\* a step of the pin block in which update_staple was called and the staple
\* in the store does not carry the chosen UPC afterwards
UpdateFailedStep ==
    /\ bld.pc = "pin"
    /\ bld'.updates = 1
    /\ ~\E i \in DOMAIN store' :
          /\ store'[i].name = bld.staples[bld.i].name
          /\ store'[i].preferred_upc = bld.chosen

\* what the build does when the update failed: the item is appended with the
\* chosen UPC and source "search", pinned[name] is false, the loop goes on
ToleratedStep ==
    /\ bld'.pc = "head"
    /\ Appends
    /\ LastItem(bld').upc = bld.chosen
    /\ LastItem(bld').source = "search"
    /\ bld'.pinned[bld.staples[bld.i].name] = FALSE

\* C13: if pinning is accepted but the durable update of the staple's
\* preferred UPC fails, generate_proposal does not fail: pinned[name] is
\* false, the item is emitted with the chosen UPC and source "search", and
\* the build goes on with the remaining staples.
C13_UpdateFailureTolerated == [][UpdateFailedStep => ToleratedStep]_vars

\* ------------------------------------------------------------------------
\* One staple of a build against every answer of the API
\* ------------------------------------------------------------------------
InitResolve ==
    /\ IdleApply
    /\ IdleStore
    /\ InitHist
    /\ rt = IdleRt
    /\ \E st \in CandStaples, a \in BOOLEAN, e \in ResolveEnvs :
          /\ NeedsSearch(st) \/ (~e.search.err /\ e.search.n = 0)
          /\ cmd = IdleCmd
          /\ cand = [pc |-> "input", staple |-> st, auto_pin |-> a, env |-> e,
                     file |-> <<Staple_to_dict(st)>>, out |-> <<>>]

NextResolve == GenerateItem

SpecResolve == InitResolve /\ [][NextResolve]_vars

\* ------------------------------------------------------------------------
\* A TUI session, with `kroget staples propose` run from a shell beside it
\* ------------------------------------------------------------------------
TuiStores == {s \in StoreFiles : Len(s) \in {0, 2}}

InitTui ==
    /\ rt = IdleRt
    /\ cand = IdleCand
    /\ cmd = IdleCmd
    /\ InitHist
    /\ host = "tui"
    /\ proposalFile = NoFile
    /\ argv = [apply |-> FALSE, yes |-> FALSE, stop_on_error |-> FALSE]
    /\ cliPc = "none"
    /\ proposal = NoProposal
    /\ confirmed = "unasked"
    /\ runs = <<>>
    /\ span = NoSpan
    /\ tuiScreen = "start"
    /\ tuiDismissed = <<>>
    /\ ui = IdleUi
    /\ store \in TuiStores
    /\ bld = IdleBuild
    /\ peer = IdlePeer

\* two staples without preferred UPC
InitTuiApply ==
    /\ InitTui
    /\ Len(store) = 2
    /\ \A i \in DOMAIN store : StaplesStore_load(store)[i].preferred_upc = NoneV

\* the session with one apply
NextTui ==
    \/ refresh_data
    \/ \E row \in 0..(MaxStaples - 1) : select_proposal_row(row)
    \/ \E row \in 0..(MaxAlternatives - 1) : select_alternative_row(row)
    \/ action_delete
    \/ action_pin
    \/ (tuiDismissed = <<>> /\ action_apply)
    \/ \E button \in {"confirm_yes", "confirm_no"} : _handle_confirm(button)
    \/ \E k \in DOMAIN runs : WorkerToken(k)
    \/ \E k \in DOMAIN runs : ApplyStep(k)
    \/ \E k \in DOMAIN runs : WorkerDone(k)

SpecTui == InitTuiApply /\ [][NextTui]_vars

\* the session without an apply, and `kroget staples propose` beside it
NextPin ==
    \/ refresh_data
    \/ \E row \in 0..(MaxStaples - 1) : select_proposal_row(row)
    \/ \E row \in 0..(MaxAlternatives - 1) : select_alternative_row(row)
    \/ action_delete
    \/ action_pin
    \/ staples_propose

SpecPin == InitTui /\ [][NextPin]_vars

\* the preferred UPCs recorded under a name in a list of staples
PreferredOf(staples, name) ==
    {staples[i].preferred_upc : i \in {j \in DOMAIN staples : staples[j].name = name}}

\* every item marked "preferred" carries a UPC, the preferred UPC of the
\* staple of its name in the input staples or in the staples file
PreferredBacked(items, input, file) ==
    \A k \in DOMAIN items :
        items[k].source = "preferred" =>
            /\ items[k].upc # NoneV
            /\ items[k].upc \in PreferredOf(input, items[k].name)
                                  \cup PreferredOf(StaplesStore_load(file), items[k].name)

\* a step of action_pin that reaches update_staple and changes the proposal
PinStep ==
    /\ CanPin(proposal, ui)
    /\ bld' = bld
    /\ proposal' # proposal
    /\ ui'.alt_rows > 0

\* C14: every proposal that generate_proposal returns (to the CLI command
\* and to the TUI's refresh) and every proposal the TUI holds after a pin has,
\* for each item whose source is "preferred", a non-null upc equal to the
\* preferred_upc of the staple of the same name, in the input staples or in
\* the staples file as that build wrote it; after a pin the pinned item's upc
\* is the preferred_upc the pin wrote to the file.
C14_PreferredBacked ==
    [][/\ (bld' # bld => PreferredBacked(bld'.items, bld'.staples, store'))
       /\ (proposal' # proposal /\ proposal'.ok =>
              PreferredBacked(proposal'.value.items, ui'.staples, store'))
       /\ (PinStep =>
              LET item == proposal'.value.items[ui.proposal_index + 1]
              IN  /\ item.source = "preferred"
                  /\ item.upc # NoneV
                  /\ PreferredOf(StaplesStore_load(store'), item.name) = {item.upc}
                  /\ PreferredOf(ui'.staples, item.name) = {item.upc})]_vars

\* the CLI build pinned a searched UPC, and the TUI holds an item it pinned
\* from its alternatives
C14_Witness ==
    /\ bld.pc = "done"
    /\ \E k \in DOMAIN bld.items :
          /\ bld.items[k].source = "preferred"
          /\ bld.items[k].alternatives # <<>>
    /\ proposal.ok
    /\ \E k \in DOMAIN proposal.value.items :
          /\ proposal.value.items[k].source = "preferred"
          /\ proposal.value.items[k].alternatives # <<>>
          /\ proposal.value.items[k].upc = proposal.value.items[k].alternatives[2].upc

\* the staple was searched for and the search returned
Searched ==
    /\ cand.pc = "built"
    /\ ~Truthy(cand.staple.preferred_upc)
    /\ ~cand.env.search.err

\* the UPCs embedded in the top result, and those its detail fetch returned
TopEmbedded == UpcFields(cand.env.prods[1].embedded)
TopFetched ==
    IF cand.env.first_detail.err THEN <<>> ELSE UpcFields(cand.env.first_detail.payload)

\* the item is the valid "unresolved" outcome
Unresolved ==
    /\ cand.out.item.upc = NoneV
    /\ cand.out.item.source = "search"
    /\ cand.out.item.notes = NoneV
    /\ ~cand.out.pinned

CandidateUpcs(j) ==
    LET c == cand.env.prods[j]
    IN  IF UpcFields(c.embedded) # <<>> THEN UpcFields(c.embedded)
        ELSE IF c.detail.err THEN <<>>
        ELSE UpcFields(c.detail.payload)

\* the search results that are candidates of the built item
CandidateIndexes ==
    IF Truthy(cand.staple.preferred_upc) \/ cand.env.search.err THEN {}
    ELSE {j \in 1..cand.env.search.n : j <= 3}

\* C16: an item built by generate_proposal has at most 3 alternatives; they
\* come from the first 3 search results only, in search-result order, one for
\* each of those results that yields a UPC, with that result's first UPC and
\* description; a result that yields no UPC contributes none.
C16_Alternatives ==
    cand.pc = "built" =>
        LET alts == cand.out.item.alternatives
            yielding == {j \in CandidateIndexes : CandidateUpcs(j) # <<>>}
        IN  /\ Len(alts) <= 3
            /\ Len(alts) = Cardinality(yielding)
            /\ \E f \in [1..Len(alts) -> yielding] :
                  /\ \A k \in 1..Len(alts) : \A l \in 1..Len(alts) :
                        k < l => f[k] < f[l]
                  /\ \A k \in 1..Len(alts) :
                        /\ alts[k].upc = CandidateUpcs(f[k])[1]
                        /\ alts[k].description = Descriptions[f[k]]

\* five results; the first yields no UPC, the second embeds two, the third
\* gets two from its detail fetch: two alternatives, in that order
C16_Witness ==
    /\ cand.pc = "built"
    /\ cand.env.search.n = 5
    /\ CandidateUpcs(1) = <<>>
    /\ CandidateUpcs(2) = <<ProdUpcs[2], SecondUpcs[2]>>
    /\ CandidateUpcs(3) = <<SecondUpcs[3], ProdUpcs[3]>>
    /\ CandidateUpcs(4) # <<>>
    /\ Len(cand.out.item.alternatives) = 2
    /\ cand.out.item.alternatives[1].upc = ProdUpcs[2]
    /\ cand.out.item.alternatives[2].upc = SecondUpcs[3]

\* the candidates whose detail fetch was issued in the loop and raised
FailedFetches ==
    {j \in CandidateIndexes :
        /\ UpcFields(cand.env.prods[j].embedded) = <<>>
        /\ cand.env.prods[j].detail.err}

\* the second detail fetch for the top result was issued and raised
FirstFetchFailed ==
    /\ CandidateIndexes # {}
    /\ TopEmbedded = <<>>
    /\ cand.env.first_detail.err

\* C17: when the detail fetch for a candidate raises, the staple's item is
\* still built, without an error note; the candidate counts as one that
\* yields no UPC (no alternative for it, no chosen UPC from it), and every
\* other candidate of the staple that yields a UPC is listed as an
\* alternative.
C17_DetailFailureLocal ==
    cand.pc = "built" /\ (FailedFetches # {} \/ FirstFetchFailed) =>
        LET item == cand.out.item
        IN  /\ item.name = cand.staple.name
            /\ item.notes = NoneV
            /\ \A j \in FailedFetches :
                  \A k \in DOMAIN item.alternatives :
                     item.alternatives[k].description # Descriptions[j]
            /\ \A j \in CandidateIndexes \ FailedFetches :
                  CandidateUpcs(j) # <<>> =>
                     \E k \in DOMAIN item.alternatives :
                        /\ item.alternatives[k].upc = CandidateUpcs(j)[1]
                        /\ item.alternatives[k].description = Descriptions[j]
            /\ FirstFetchFailed => ~Truthy(item.upc)

\* both detail fetches for the top result raise; the second and third
\* results are listed, the item has no UPC
C17_Witness ==
    /\ cand.pc = "built"
    /\ cand.staple.preferred_upc = NoneV
    /\ FailedFetches = {1}
    /\ FirstFetchFailed
    /\ cand.env.search.n = 3
    /\ Len(cand.out.item.alternatives) = 2
    /\ cand.out.item.alternatives[1].description = Descriptions[2]
    /\ cand.out.item.alternatives[2].description = Descriptions[3]
    /\ cand.out.item.upc = NoneV

\* the file holds a whole JSON document
Complete(file) == file.exists => file.doc.t = "obj"

\* the list record_sent_session is to persist, from the file as it is
NewList == Truncate(InsertFront(SentItemsStore_load(histFile), rec.session), MAX_SESSIONS)

\* C18: at every step of record_sent_session, a crash between any two steps
\* included, the file at the history path is left as it was or becomes the
\* complete document of the truncated new list, never a partial document; and
\* the list the call returns is the list the file then holds.
C18_AtomicReplace ==
    [][/\ Complete(histFile')
       /\ histFile' = histFile
             \/ /\ histFile'.exists
                /\ histFile'.doc = SentItemsStore_payload(NewList)
       /\ (rec.pc = "return" /\ rec'.pc = "idle" =>
              rec'.returned = SentItemsStore_load(histFile'))]_vars

\* the first call died between writing the temporary file and the rename,
\* the second one completed on a full history: the file holds 20 sessions,
\* the second call's first, the oldest dropped, and that list was returned
C18_Witness ==
    /\ rec.pc = "idle"
    /\ Len(recLog) = 2
    /\ histFile.exists
    /\ LET sessions == SentItemsStore_load(histFile)
       IN  /\ Len(sessions) = MAX_SESSIONS
           /\ sessions[1].session_id = "2"
           /\ sessions[2].session_id = "101"
           /\ sessions[MAX_SESSIONS].session_id = "119"
           /\ rec.returned = sessions

SessionIds(sessions) == {sessions[i].session_id : i \in DOMAIN sessions}

StapleNames(file) ==
    {StaplesStore_load(file)[i].name : i \in DOMAIN StaplesStore_load(file)}

\* the staple an add, remove or update by the other process is about
PeerTarget == IF peer.op = "remove_staple" THEN peer.arg ELSE peer.arg.name

\* C19: the last writer wins. When a whole-document read-modify-write saves,
\* the file holds the writer's snapshot with its own change and nothing of
\* what another writer saved since that snapshot was loaded: a staple pinned
\* in between is back to its snapshot value, a session recorded in between
\* is gone from the history.
C19_LastWriterWins ==
    [][/\ (peer.op \in StapleOps /\ peer.pc = "loaded" /\ peer'.pc = "done" =>
              \A n \in StapleNames(store) \ {PeerTarget} :
                 PreferredOf(StaplesStore_load(store'), n)
                    = PreferredOf(StaplesStore_load(peer.loaded), n))
       /\ (peer.op = "record_sent_session" /\ peer.pc = "loaded" /\ peer'.pc = "done" =>
              /\ peer.arg.session_id \in SessionIds(SentItemsStore_load(histFile'))
              /\ \A id \in SessionIds(SentItemsStore_load(histFile))
                              \ SessionIds(peer.loaded) :
                    id \notin SessionIds(SentItemsStore_load(histFile')))
       /\ (rec.pc = "replace" /\ rec'.pc = "return" =>
              /\ rec.session.session_id \in SessionIds(SentItemsStore_load(histFile'))
              /\ \A id \in SessionIds(SentItemsStore_load(histFile))
                              \ SessionIds(rec.sessions) :
                    id \notin SessionIds(SentItemsStore_load(histFile')))]_vars

\* both stores have lost an update. `staples propose` pinned milk and
\* returned, the other process's add_staple of bread, begun before and saved
\* after, put milk back without its pin; this process's record_sent_session
\* returned a list with its session, and the history, saved last by the other
\* process, holds that process's session and not this one.
C19_Witness ==
    /\ bld.pc = "done"
    /\ ItemNames[1] \in DOMAIN bld.pinned
    /\ bld.pinned[ItemNames[1]]
    /\ PreferredOf(StaplesStore_load(store), ItemNames[1]) = {NoneV}
    /\ ItemNames[3] \in StapleNames(store)
    /\ rec.pc = "idle"
    /\ Len(recLog) = 1
    /\ recLog[1].session_id \in SessionIds(rec.returned)
    /\ peer.op = "record_sent_session"
    /\ peer.pc = "done"
    /\ PeerSession.session_id \in SessionIds(SentItemsStore_load(histFile))
    /\ recLog[1].session_id \notin SessionIds(SentItemsStore_load(histFile))

\* the worker has made a cart-add call and has another one to make
InFlight(r) ==
    /\ r.pc = "loop"
    /\ r.calls # <<>>
    /\ ~r.halted
    /\ \E i \in (r.idx + 1)..Len(r.items) : Truthy(r.items[i].upc)

\* C20: while an apply worker is between its first and its last cart-add
\* call, no step changes the proposal the app holds nor the items the worker
\* is sending: action_delete, action_pin and action_refresh do not take
\* effect on them.
C20_NoMutationInFlight ==
    [][(\E k \in DOMAIN runs : InFlight(runs[k])) =>
          /\ proposal' = proposal
          /\ \A k \in DOMAIN runs :
                InFlight(runs[k]) => runs'[k].items = runs[k].items]_vars


\* ------------------------------------------------------------------------
\* One command from its first statement to its exit: the environment it
\* reads, the calls it sends to the Kroger API, the files it writes
\* ------------------------------------------------------------------------
\* what os.getenv returns for a credential: unset, set to "", set
EnvValues == {NoneV, "", "client-1"}

CredentialNames == <<"KROGER_CLIENT_ID", "KROGER_CLIENT_SECRET">>

\* KrogerConfig.from_env reporting only the unset variables (`is None`)
KrogerConfig_from_env_UnsetOnly(env) ==
    LET Missing(n) == env[n] = NoneV
        missing == SelectSeq(CredentialNames, Missing)
    IN  [ok |-> missing = <<>>, missing |-> missing]

\* KrogerConfig.from_env: `missing` lists the names whose value is falsy; a
\* non-empty `missing` raises ConfigError
KrogerConfig_from_env(env) ==
    LET Missing(n) == ~Truthy(env[n])
        missing == SelectSeq(CredentialNames, Missing)
    IN  [ok |-> missing = <<>>, missing |-> missing]

\* load_kroger_config, which cli.py imports from kroget.core.storage
load_kroger_config(env) == KrogerConfig_from_env(env)

\* the requests generate_proposal sends for one staple: the search, a
\* get_product for each of the first three results without an embedded UPC,
\* one more for the first result
RECURSIVE DetailCalls(_, _)
DetailCalls(prods, m) ==
    IF m = 0 THEN <<>>
    ELSE DetailCalls(prods, m - 1)
            \o (IF NeedsDetail(prods[m].embedded) THEN <<"get_product">> ELSE <<>>)

StapleCalls(staple, env) ==
    IF ~NeedsSearch(staple) THEN <<>>
    ELSE IF env.search.err THEN <<"search">>
    ELSE LET m == IF env.search.n < MaxAlternatives THEN env.search.n
                  ELSE MaxAlternatives
         IN  <<"search">> \o DetailCalls(env.prods, m)
                \o (IF m > 0 /\ NeedsDetail(env.prods[1].embedded)
                    THEN <<"get_product">> ELSE <<>>)

RECURSIVE ProposalCalls(_, _, _)
ProposalCalls(staples, envs, k) ==
    IF k = 0 THEN <<>>
    ELSE ProposalCalls(staples, envs, k - 1) \o StapleCalls(staples[k], envs[k])

\* the except clause swallowing the KrogerAuthError: the command carries on
AfterToken_Swallowed(c, tok, next) ==
    IF tok # "ok" THEN [c EXCEPT !.pc = next, !.err = "KrogerAuthError"]
    ELSE [c EXCEPT !.pc = next]

\* `except auth.KrogerAuthError`: the message is printed and typer.Exit(code=1)
\* raised; otherwise the command goes on to `next`
AfterToken(c, tok, next) ==
    IF tok # "ok" THEN [c EXCEPT !.pc = "exit1", !.err = "KrogerAuthError"]
    ELSE [c EXCEPT !.pc = next]

CmdUnchanged ==
    /\ UNCHANGED applyVars
    /\ UNCHANGED histVars
    /\ UNCHANGED <<rt, cand, bld, peer>>

\* the first statement of the command: _load_config() in cli.py, which prints
\* the ConfigError and exits with code 1; KrogerConfig.from_env() in
\* KrogetApp.__init__, where nothing catches it
CmdLoadConfig ==
    /\ cmd.pc = "start"
    /\ LET config == IF cmd.name = "tui" THEN KrogerConfig_from_env(cmd.env)
                     ELSE load_kroger_config(cmd.env)
       IN  cmd' = IF ~config.ok
                  THEN [cmd EXCEPT !.pc = IF cmd.name = "tui" THEN "crashed" ELSE "exit1",
                                   !.err = "ConfigError"]
                  ELSE [cmd EXCEPT !.pc = IF cmd.name = "tui" THEN "mounted" ELSE "inputs"]
    /\ UNCHANGED store
    /\ CmdUnchanged

\* staples_propose: _resolve_location_id and get_staples, each exiting with
\* code 1 when it has nothing
CmdStaples ==
    /\ cmd.name = "staples propose"
    /\ cmd.pc = "inputs"
    /\ \E location_id \in {NoneV, "01400441"} :
          cmd' = IF ~Truthy(location_id) \/ StaplesStore_load(store) = <<>>
                 THEN [cmd EXCEPT !.pc = "exit1", !.err = "input"]
                 ELSE [cmd EXCEPT !.pc = "token"]
    /\ UNCHANGED store
    /\ CmdUnchanged

\* generate_proposal: auth.get_client_credentials_token, the request for a
\* client-credentials token, before the loop
CmdClientToken ==
    /\ cmd.name = "staples propose"
    /\ cmd.pc = "token"
    /\ \E tok \in {"ok", "KrogerAuthError"} :
          cmd' = AfterToken([cmd EXCEPT !.net = Append(@, "token")], tok, "build")
    /\ UNCHANGED store
    /\ CmdUnchanged

\* generate_proposal from its loop on, then proposal.save(out)
CmdGenerate ==
    /\ cmd.name = "staples propose"
    /\ cmd.pc = "build"
    /\ LET staples == StaplesStore_load(store)
       IN  \E envs \in [1..Len(staples) -> SessionEnvs] :
              LET r == generate_proposal(staples, cmd.args.auto_pin,
                                         ~cmd.args.auto_pin, envs, store)
              IN  /\ store' = r.file
                  /\ cmd' = [cmd EXCEPT
                               !.pc = "done",
                               !.staples = staples,
                               !.envs = envs,
                               !.calls = [k \in DOMAIN staples |->
                                             StapleCalls(staples[k], envs[k])],
                               !.net = @ \o ProposalCalls(staples, envs, Len(staples)),
                               !.items = r.items,
                               !.out = FileOf(Proposal_save(
                                          Proposal("1", "2024-01-01T00:00:00Z",
                                                   "01400441", r.items, <<>>)))]
    /\ CmdUnchanged

\* proposal_apply: Proposal.load, then auth.load_user_token inside the try,
\* then the dry-run return, the prompt or the apply
CmdUserToken ==
    /\ cmd.name = "proposal apply"
    /\ cmd.pc = "inputs"
    /\ \E tok \in {"ok", "KrogerAuthError"} :
          cmd' = AfterToken(cmd, tok, AfterLoad(cmd.args))
    /\ UNCHANGED store
    /\ CmdUnchanged

\* typer.confirm("Apply proposal to cart?")
CmdConfirm ==
    /\ cmd.name = "proposal apply"
    /\ cmd.pc = "confirm"
    /\ \E answer \in BOOLEAN :
          cmd' = [cmd EXCEPT !.pc = IF answer THEN "apply" ELSE "exit1",
                             !.err = IF answer THEN @ ELSE "declined"]
    /\ UNCHANGED store
    /\ CmdUnchanged

\* apply_proposal_items: one pass of its loop, client.add_to_cart included
CmdCartAdd ==
    /\ cmd.name = "proposal apply"
    /\ cmd.pc = "apply"
    /\ ~LoopEnded(cmd.run)
    /\ \E outcome \in {"ok"} \cup ApiErrors :
          LET r == cmd.run
              item == r.items[r.idx + 1]
              after == apply_proposal_items(r, item, outcome)
          IN  cmd' = [cmd EXCEPT
                        !.net = @ \o [k \in 1..(Len(after.calls) - Len(r.calls)) |->
                                         "cart_add"],
                        !.run = [after EXCEPT
                                    !.results = Append(@, ApplyItemResult(item, outcome))]]
    /\ UNCHANGED store
    /\ CmdUnchanged

\* the loop is over: session_from_apply_results and record_sent_session
CmdRecord ==
    /\ cmd.name = "proposal apply"
    /\ cmd.pc = "apply"
    /\ LoopEnded(cmd.run)
    /\ cmd' = [cmd EXCEPT
                 !.pc = "done",
                 !.run.pc = "returned",
                 !.recorded = <<session_from_apply_results(cmd.run.results,
                                    "01400441", <<>>, Times[1], Times[2], NoneV,
                                    Times[2], "uuid-1")>>]
    /\ UNCHANGED store
    /\ CmdUnchanged

InitCommand ==
    /\ IdleApply
    /\ InitHist
    /\ rt = IdleRt
    /\ cand = IdleCand
    /\ bld = IdleBuild
    /\ peer = IdlePeer
    /\ store \in StoreFiles
    /\ \E name \in {"staples propose", "proposal apply", "tui"},
          id \in EnvValues, secret \in EnvValues,
          auto \in BOOLEAN, apply \in BOOLEAN, yes \in BOOLEAN, stop \in BOOLEAN,
          items \in ApplyItemLists :
          /\ name # "staples propose" => ~auto
          /\ name # "proposal apply" => ~apply /\ ~yes /\ ~stop /\ items = <<>>
          /\ name = "proposal apply" => store = <<>>
          /\ cmd = [IdleCmd EXCEPT
                      !.name = name,
                      !.pc = "start",
                      !.env = [KROGER_CLIENT_ID |-> id, KROGER_CLIENT_SECRET |-> secret],
                      !.args = [auto_pin |-> auto, apply |-> apply, yes |-> yes,
                                stop_on_error |-> stop],
                      !.items = items,
                      !.run = NewRun(IF name = "proposal apply" THEN "loop" ELSE "none",
                                     items, stop)]

NextCommand ==
    \/ CmdLoadConfig
    \/ CmdStaples
    \/ CmdClientToken
    \/ CmdGenerate
    \/ CmdUserToken
    \/ CmdConfirm
    \/ CmdCartAdd
    \/ CmdRecord

SpecCommand == InitCommand /\ [][NextCommand]_vars

\* C21: when KROGER_CLIENT_ID or KROGER_CLIENT_SECRET is unset or empty, the
\* command, once past its first statement, has stopped with a ConfigError
\* and has sent nothing: no token request, no search, no product fetch, no
\* cart-add; it wrote no proposal and recorded no session.
C21_ConfigErrorBeforeNetwork ==
    (cmd.pc \notin {"none", "start"}
        /\ (~Truthy(cmd.env.KROGER_CLIENT_ID) \/ ~Truthy(cmd.env.KROGER_CLIENT_SECRET)))
    => /\ cmd.pc \in {"exit1", "crashed"}
       /\ cmd.err = "ConfigError"
       /\ cmd.net = <<>>
       /\ cmd.run.idx = 0
       /\ cmd.out = NoFile
       /\ cmd.recorded = <<>>

\* C21 witness: a CLI command stopped on an empty client secret with the
\* client id set
C21_Witness ==
    /\ cmd.name = "staples propose"
    /\ cmd.pc = "exit1"
    /\ cmd.err = "ConfigError"
    /\ cmd.env.KROGER_CLIENT_ID = "client-1"
    /\ cmd.env.KROGER_CLIENT_SECRET = ""
    /\ StaplesStore_load(store) # <<>>

\* C22: a command that met a KrogerAuthError has exited with code 1; it sent
\* no search, no product fetch and no cart-add, built no item, wrote no
\* proposal file, processed no item and recorded no session.
C22_AuthErrorIsFatal ==
    cmd.err = "KrogerAuthError"
    => /\ cmd.pc = "exit1"
       /\ \A i \in DOMAIN cmd.net : cmd.net[i] = "token"
       /\ cmd.name = "staples propose" => cmd.items = <<>>
       /\ cmd.out = NoFile
       /\ cmd.run.idx = 0
       /\ cmd.recorded = <<>>

\* C22 witness: `proposal apply --apply --yes` over a proposal with a
\* sendable item stopped on the user token
C22_Witness ==
    /\ cmd.name = "proposal apply"
    /\ cmd.err = "KrogerAuthError"
    /\ cmd.args.apply
    /\ cmd.args.yes
    /\ \E i \in DOMAIN cmd.items : Truthy(cmd.items[i].upc)

\* the other half of the C22 case: generate_proposal's token request failed
\* with staples waiting for a search
C22_WitnessPropose ==
    /\ cmd.name = "staples propose"
    /\ cmd.err = "KrogerAuthError"
    /\ \E i \in DOMAIN store : store[i].preferred_upc = NoneV


\* ------------------------------------------------------------------------
\* session_from_apply_results against every argument list
\* ------------------------------------------------------------------------
\* the `results` lists apply_proposal_items can hand over
ResultLists ==
    UNION {{[i \in 1..Len(items) |-> ApplyItemResult(items[i], o[i])] :
               o \in [1..Len(items) -> {"ok"} \cup ApiErrors]} :
           items \in ApplyItemLists}

\* an optional str argument: left out (None), the empty string, a value
OptArgs(value) == {NoneV, "", value}

InitSession ==
    /\ IdleApply
    /\ InitHist
    /\ rt = IdleRt
    /\ cand = IdleCand
    /\ IdleStore
    /\ peer = IdlePeer
    /\ \E results \in ResultLists, session_id \in OptArgs("session-1"),
          started_at \in OptArgs(Times[1]), finished_at \in OptArgs(Times[2]) :
          cmd = [name |-> "session_from_apply_results", pc |-> "call",
                 results |-> results, session_id |-> session_id,
                 started_at |-> started_at, finished_at |-> finished_at,
                 now |-> "2024-02-02T00:00:00Z", fresh_id |-> "uuid-1",
                 session |-> NoSession]

\* the call returns its SentSession
SessionFromApplyResults ==
    /\ cmd.name = "session_from_apply_results"
    /\ cmd.pc = "call"
    /\ cmd' = [cmd EXCEPT
                 !.pc = "returned",
                 !.session = session_from_apply_results(cmd.results, "01400441",
                                 <<"Staples">>, cmd.started_at, cmd.finished_at,
                                 cmd.session_id, cmd.now, cmd.fresh_id)]
    /\ UNCHANGED store
    /\ CmdUnchanged

NextSession == SessionFromApplyResults

SpecSession == InitSession /\ [][NextSession]_vars

\* the items of the session are the results, one for one and in order
ItemsFollowResults ==
    /\ Len(cmd.session.items) = Len(cmd.results)
    /\ \A i \in DOMAIN cmd.results :
          LET it == cmd.session.items[i]
              r == cmd.results[i]
          IN  /\ it.name = r.item.name
              /\ it.quantity = r.item.quantity
              /\ it.modality = r.item.modality
              /\ it.status = r.status
              /\ it.error = r.error
              /\ it.upc = (IF r.item.upc = NoneV THEN "" ELSE r.item.upc)

\* the value the session carries for an optional argument, when an argument
\* counts as supplied if Given(arg)
Carried(Given(_)) ==
    /\ cmd.session.session_id
          = (IF Given(cmd.session_id) THEN cmd.session_id ELSE cmd.fresh_id)
    /\ cmd.session.started_at
          = (IF Given(cmd.started_at) THEN cmd.started_at ELSE cmd.now)
    /\ cmd.session.finished_at
          = (IF Given(cmd.finished_at) THEN cmd.finished_at ELSE cmd.now)

NotNone(x) == x # NoneV

C23_SessionFromResults ==
    cmd.pc = "returned" => ItemsFollowResults /\ Carried(Truthy)

\* C23 witness: a session returned for a failed item without UPC and an
\* added one, the id passed, started_at passed as "", finished_at left out
C23_Witness ==
    /\ cmd.pc = "returned"
    /\ cmd.name = "session_from_apply_results"
    /\ Len(cmd.results) >= 2
    /\ cmd.results[1].item.upc = NoneV
    /\ cmd.results[2].status = "success"
    /\ cmd.session_id = "session-1"
    /\ cmd.started_at = ""
    /\ cmd.finished_at = NoneV


\* ------------------------------------------------------------------------
\* The staples store under any sequence of add, update and remove
\* ------------------------------------------------------------------------
\* the names the calls are made with
CallNames == {ItemNames[1], ItemNames[2]}

\* the last call made on the store and whether it raised ValueError
StapleCall(op, name, res) ==
    /\ cmd.name = "staples"
    /\ store' = res.file
    /\ cmd' = [cmd EXCEPT !.op = op, !.arg = name, !.raised = ~res.ok]
    /\ CmdUnchanged

\* add_staple(Staple(name, term, quantity, preferred_upc))
StaplesAdd ==
    \E name \in CallNames, quantity \in {1, 2}, upc \in {NoneV, "", "000111"} :
        StapleCall("add_staple", name,
                   add_staple(store, Staple(name, name, quantity, upc, "PICKUP")))

\* update_staple(name, quantity=..., preferred_upc=...)
StaplesUpdate ==
    \E name \in CallNames, quantity \in {NoQuantity, 2}, upc \in {NoneV, "", "000222"} :
        StapleCall("update_staple", name,
                   update_staple(store, name, NoneV, quantity, upc, NoneV))

\* remove_staple(name)
StaplesRemove ==
    \E name \in CallNames :
        StapleCall("remove_staple", name, remove_staple(store, name))

InitStaples ==
    /\ IdleApply
    /\ InitHist
    /\ rt = IdleRt
    /\ cand = IdleCand
    /\ bld = IdleBuild
    /\ peer = IdlePeer
    /\ store = <<>>
    /\ cmd = [name |-> "staples", pc |-> "ready", op |-> "none", arg |-> NoneV,
              raised |-> FALSE]

NextStaples ==
    \/ StaplesAdd
    \/ StaplesUpdate
    \/ StaplesRemove

SpecStaples == InitStaples /\ [][NextStaples]_vars

\* C24: the names in the staples document are pairwise distinct.
C24_NamesDistinct ==
    \A i \in DOMAIN store : \A j \in DOMAIN store :
        store[i].name = store[j].name => i = j

\* C24 witness: add_staple just raised on a name that is stored, beside
\* another staple
C24_Witness ==
    /\ cmd.name = "staples"
    /\ cmd.op = "add_staple"
    /\ cmd.raised
    /\ Len(store) = 2
    /\ \E i \in DOMAIN store : store[i].name = cmd.arg

\* the call about to be made (cmd' names it) refers to a name it cannot act
\* on: add_staple of a stored name, update_staple or remove_staple of a name
\* that is not stored
BadName ==
    LET stored == \E i \in DOMAIN store : store[i].name = cmd'.arg
    IN  IF cmd'.op = "add_staple" THEN stored ELSE ~stored

\* C26: a call with such a name raises ValueError and leaves the staples
\* document as it was; any other call returns.
C26_FailedCallKeepsDocument ==
    [][/\ cmd'.raised = BadName
       /\ cmd'.raised => store' = store]_vars

\* C26 witness: update_staple just raised for a name that is not stored,
\* with another staple in the document
C26_Witness ==
    /\ cmd.name = "staples"
    /\ cmd.op = "update_staple"
    /\ cmd.raised
    /\ store # <<>>
    /\ \A i \in DOMAIN store : store[i].name # cmd.arg


\* the requests of one kind among `calls`
CallsOf(calls, kind) == Len(SelectSeq(calls, LAMBDA c : c = kind))

\* C25: in the proposal `staples propose` wrote, the item of a staple with a
\* preferred UPC carries that UPC, the product search was sent exactly once
\* for the staple, and with the search answered the item's alternatives are
\* those of its results.
C25_PreferredStillSearched ==
    (cmd.name = "staples propose" /\ cmd.pc = "done")
    => \A i \in DOMAIN cmd.staples :
          Truthy(cmd.staples[i].preferred_upc)
          => /\ cmd.items[i].upc = cmd.staples[i].preferred_upc
             /\ CallsOf(cmd.calls[i], "search") = 1
             /\ ~cmd.envs[i].search.err
                   => /\ cmd.items[i].alternatives # <<>>
                      /\ cmd.items[i].alternatives
                            = AlternativesOf(cmd.envs[i].prods, cmd.envs[i].search.n)


\* C27: when generate_proposal returns, pinned has one entry per staple and
\* pinned[name] is true exactly when the item of that name has source
\* "preferred".
C27_PinnedIffPreferred ==
    bld.pc = "done"
    => /\ DOMAIN bld.pinned = {bld.staples[i].name : i \in DOMAIN bld.staples}
       /\ Len(bld.items) = Len(bld.staples)
       /\ \A i \in DOMAIN bld.items :
             /\ bld.items[i].name = bld.staples[i].name
             /\ bld.pinned[bld.items[i].name] = (bld.items[i].source = "preferred")

\* C27 witness: a build with auto_pin returned; one staple was pinned, the
\* update_staple for another raised ValueError and left it resolved by search
C27_Witness ==
    /\ bld.pc = "done"
    /\ bld.auto_pin
    /\ \E i \in DOMAIN bld.items : \E j \in DOMAIN bld.items :
          /\ bld.staples[i].preferred_upc = NoneV
          /\ bld.items[i].source = "preferred"
          /\ bld.pinned[bld.items[i].name]
          /\ Truthy(bld.items[j].upc)
          /\ bld.items[j].source = "search"
          /\ ~bld.pinned[bld.items[j].name]


\* C28: an item whose UPC was chosen by search (the staple has no preferred
\* UPC, the item's upc is not null) has at least one alternative and its upc
\* is the upc of the first one, whatever each detail fetch did.
C28_ChosenIsFirstAlternative ==
    (/\ cand.pc = "built"
     /\ cand.staple.preferred_upc = NoneV
     /\ cand.out.item.upc # NoneV)
    => /\ cand.out.item.alternatives # <<>>
       /\ cand.out.item.upc = cand.out.item.alternatives[1].upc


\* the message apply_proposal_items appends for the item at position pos of
\* run r, none for an item that was added
ErrorFor(r, pos) ==
    LET item == r.items[pos]
        sent == {c \in DOMAIN r.calls : r.calls[c].pos = pos}
    IN  IF ~Truthy(item.upc) THEN <<<<"Missing UPC for ", item.name>>>>
        ELSE IF \E c \in sent : r.calls[c].outcome # "ok"
        THEN LET c == CHOOSE c \in sent : TRUE
             IN  <<<<"Failed to add ", item.name, ": ", r.calls[c].outcome>>>>
        ELSE <<>>

\* the messages for the first n items, in item order
RECURSIVE ErrorsUpTo(_, _)
ErrorsUpTo(r, n) ==
    IF n = 0 THEN <<>> ELSE ErrorsUpTo(r, n - 1) \o ErrorFor(r, n)

\* C29: when apply_proposal_items returns, there is one error message per
\* failed item, the messages are those of the failed items in item order,
\* success + failed is the number of items processed, which is at most
\* len(items) and is len(items) when stop_on_error is false.
C29_ErrorsMatchFailures ==
    \A k \in DOMAIN runs :
        Ended(runs[k]) =>
            /\ Len(runs[k].errors) = runs[k].failed
            /\ runs[k].errors = ErrorsUpTo(runs[k], runs[k].idx)
            /\ runs[k].success + runs[k].failed = runs[k].idx
            /\ runs[k].idx <= Len(runs[k].items)
            /\ ~runs[k].stop_on_error => runs[k].idx = Len(runs[k].items)

\* C29 witness: a run without stop_on_error returned after a missing UPC, an
\* item added and a cart-add error, with the two messages in that order
C29_Witness ==
    \E k \in DOMAIN runs :
        /\ runs[k].pc = "returned"
        /\ ~runs[k].stop_on_error
        /\ Len(runs[k].items) = 3
        /\ runs[k].success = 1
        /\ Len(runs[k].errors) = 2
        /\ runs[k].errors[1][1] = "Missing UPC for "
        /\ runs[k].errors[2][1] = "Failed to add "


\* C30: in the TUI, whenever a proposal is loaded and proposal_index is set,
\* the index refers to an existing item; and alternative_index, when set,
\* was selected for the proposal item that is selected now: a step that
\* moves proposal_index to another item does not leave an alternative_index
\* behind.
C30_SelectionCurrent ==
    /\ []((proposal.ok /\ ui.proposal_index # NoIndex)
            => (0 <= ui.proposal_index
                /\ ui.proposal_index < Len(proposal.value.items)))
    /\ [][ui'.proposal_index # ui.proposal_index
            => ui'.alternative_index = NoIndex]_vars

====
